---------------------------- MODULE Spec2Model ----------------------------
(***************************************************************************)
(* A model of the client-side data layer of grab-some-apis: the NASA       *)
(* store (favorites, preferences, date navigation), the adjacent-date      *)
(* prefetch policy, the query-key builders, the page-cursor extractor and  *)
(* the request wrappers with typed errors.                                 *)
(***************************************************************************)
EXTENDS Integers, Sequences, FiniteSets, TLC

VARIABLES
    tz,             \* the browser's time zone (environment, fixed per run)
    today,          \* the current UTC day (days since 1970-01-01)
    favorites,      \* NASAStore.favorites: string[]
    preferences,    \* NASAStore.preferences: {viewMode, randomCount, selectedDate}
    prefetchLog     \* what the last prefetchAdjacent() run asked the query client for

nasaVars == <<tz, today, favorites, preferences, prefetchLog>>

VARIABLES
    hook,           \* <<hookA, hookB>>: the key builder each of two callers uses
    given,          \* <<paramsA, paramsB>>: the parameter objects as the callers built them
    params,         \* the same two objects as they are now (a builder may sort ids in place)
    queryKey        \* <<keyA, keyB>>: the keys built, <<>> before the builders ran

keyVars == <<hook, given, params, queryKey>>

VARIABLES
    pager,          \* the infinite query whose page envelope arrived
    lastPage,       \* the envelope's info: [next, prev], each a cursor string or null / absent
    pageParam       \* [next, prev]: what getNextPageParam / getPreviousPageParam gave

cursorVars == <<pager, lastPage, pageParam>>

VARIABLES
    call,           \* the request wrapper called
    upstream,       \* how the HTTP exchange went: a response or a transport failure
    outcome         \* what the wrapper gave its caller: a value returned or an error thrown

fetchVars == <<call, upstream, outcome>>

VARIABLES
    queryCache,     \* the query client's cache: the data held under each key hash
    inFlight,       \* the requests not yet answered: [query, mutation, random]
    lastWrite       \* per date / count asked for, the data of the write that completed last

cacheVars == <<queryCache, inFlight, lastWrite>>

VARIABLES
    card,           \* APODCard: the apod shown and imageLoading, imageError, imageSrc
    img,            \* the card's image element: the src it was given and how its load went
    failures       \* the load failures handleImageError handled since the APOD changed

uiVars == <<card, img, failures>>

VARIABLES
    screen          \* the page shown: its request, its query or component state

pageVars == <<screen>>

VARIABLES
    wire           \* the request in flight: the upstream's answer and latency, the time waited

wireVars == <<wire>>

VARIABLES
    mounted,        \* whether CharacterSearch is mounted
    filters,        \* CharacterSearch's filters state: [name]
    debounced,      \* the hook's state, which it returns
    timers,         \* the window's pending timeouts: [id, value, remaining]
    id,             \* the timeout id the hook's last effect holds for its cleanup, 0 for none
    stable         \* the time since filters.name last changed, counted up to the delay

debounceVars == <<mounted, filters, debounced, timers, id, stable>>

VARIABLES
    envFile,        \* the file .env: whether it exists and its content
    exampleFile,    \* the file .env.example
    argv,           \* the arguments of the last run of the script
    exitCode,       \* the exit status of the last run
    stdout         \* what the last run printed: <<text, value>> per line

envVars == <<envFile, exampleFile, argv, exitCode, stdout>>

VARIABLES
    hookParams,     \* the RickAndMortyCharacterRequest a component hands the character hooks
    hookEnabled    \* the enabled option each character hook gave its query, <<>> before the render

hookVars == <<hookParams, hookEnabled>>

VARIABLES
    retryers,       \* per query or mutation, its retryer: failureCount, attempts, status, waits
    delayAsked     \* the last call of retryDelay: [attemptIndex, ms]

retryVars == <<retryers, delayAsked>>

\* the variables of the cache, the components, the debounce hook and the
\* environment script
laterVars == <<cacheVars, uiVars, pageVars, wireVars, debounceVars, envVars, hookVars, retryVars>>

vars == <<nasaVars, keyVars, cursorVars, fetchVars, laterVars>>

\* the variables the NASA store and its hooks leave alone
notNasaVars == <<keyVars, cursorVars, fetchVars, laterVars>>

\* the variables the query-key builders leave alone
notKeyVars == <<nasaVars, cursorVars, fetchVars, laterVars>>

\* the variables the page-cursor extractors leave alone
notCursorVars == <<nasaVars, keyVars, fetchVars, laterVars>>

\* the variables the request wrappers leave alone
notFetchVars == <<nasaVars, keyVars, cursorVars, laterVars>>

\* the prefetch log before prefetchAdjacent() has run
NoPrefetch == [currentDate |-> <<>>, todayStr |-> <<>>, attempted |-> {}]

\* no key is being built
KeysIdle == hook = <<>> /\ given = <<>> /\ params = <<>> /\ queryKey = <<>>

\* no page envelope has arrived
CursorIdle == pager = "" /\ lastPage = <<>> /\ pageParam = <<>>

\* no request is in flight
FetchIdle == call = "" /\ upstream = <<>> /\ outcome = <<>>

\* the cache is not in use
CacheIdle == queryCache = <<>> /\ inFlight = <<>> /\ lastWrite = <<>>

\* no card is mounted
UiIdle == card = <<>> /\ img = <<>> /\ failures = <<>>

\* no page is shown
PageIdle == screen = <<>>

\* no request is in flight
WireIdle == wire = <<>>

\* the search component is not in use
DebounceIdle == mounted = <<>> /\ filters = <<>> /\ debounced = <<>> /\ timers = <<>> /\ id = <<>> /\ stable = <<>>

\* the script has not been run
EnvIdle == envFile = <<>> /\ exampleFile = <<>> /\ argv = <<>> /\ exitCode = <<>> /\ stdout = <<>>

\* no character hook has rendered
HooksIdle == hookParams = <<>> /\ hookEnabled = <<>>

\* no query or mutation has run
RetryIdle == retryers = <<>> /\ delayAsked = <<>>

LaterIdle == CacheIdle /\ UiIdle /\ PageIdle /\ WireIdle /\ DebounceIdle /\ EnvIdle /\ HooksIdle /\ RetryIdle

-----------------------------------------------------------------------------
(* Calendar dates.  A date string 'YYYY-MM-DD' is the tuple <<Y, M, D>>;   *)
(* an instant is a number of hours since 1970-01-01T00:00Z.                *)

\* new Date('YYYY-MM-DD') / Date.UTC: the day number of a civil date
DaysFromCivil(date) ==
    LET y   == IF date[2] <= 2 THEN date[1] - 1 ELSE date[1]
        era == y \div 400
        yoe == y - era * 400
        mp  == IF date[2] > 2 THEN date[2] - 3 ELSE date[2] + 9
        doy == (153 * mp + 2) \div 5 + date[3] - 1
        doe == yoe * 365 + yoe \div 4 - yoe \div 100 + doy
    IN  era * 146097 + doe - 719468

\* the civil date of a day number (the date fields toISOString prints)
CivilFromDays(z) ==
    LET s   == z + 719468
        era == s \div 146097
        doe == s - era * 146097
        yoe == (doe - doe \div 1460 + doe \div 36524 - doe \div 146096) \div 365
        doy == doe - (365 * yoe + yoe \div 4 - yoe \div 100)
        mp  == (5 * doy + 2) \div 153
        d   == doy - (153 * mp + 2) \div 5 + 1
        m   == IF mp < 10 THEN mp + 3 ELSE mp - 9
        y   == yoe + era * 400
    IN  <<IF m <= 2 THEN y + 1 ELSE y, m, d>>

\* new Date(dateString): a date-only ISO string is UTC midnight of that day
ParseDate(date) == DaysFromCivil(date) * 24

\* date.toISOString().split('T')[0]: the UTC date of an instant
ISODate(t) == CivilFromDays(t \div 24)

\* a <= b on 'YYYY-MM-DD' strings (code-unit order of zero-padded fields)
DateLE(a, b) ==
    \/ a[1] < b[1]
    \/ a[1] = b[1] /\ a[2] < b[2]
    \/ a[1] = b[1] /\ a[2] = b[2] /\ a[3] <= b[3]


-----------------------------------------------------------------------------
(* The browser's local time.  getDate()/setDate() work on local wall-clock *)
(* fields, toISOString() and new Date('YYYY-MM-DD') on UTC.                *)

Zones == {"UTC", "America/New_York", "Asia/Tokyo"}

\* the daylight-saving periods of America/New_York that the model's dates touch
NewYorkDST ==
    { [from |-> ParseDate(<<1995, 4, 2>>) + 7, to |-> ParseDate(<<1995, 10, 29>>) + 6],
      [from |-> ParseDate(<<2025, 3, 9>>) + 7, to |-> ParseDate(<<2025, 11, 2>>) + 6] }

\* the zone's UTC offset (hours) at the UTC instant t
Off(zone, t) ==
    CASE zone = "UTC" -> 0
      [] zone = "Asia/Tokyo" -> 9
      [] zone = "America/New_York" ->
            IF \E p \in NewYorkDST : p.from <= t /\ t < p.to THEN -4 ELSE -5

\* the UTC instant of a local wall-clock hour w: a repeated hour is read with
\* the offset before the transition, as is a skipped one
LocalToUTC(zone, w) ==
    LET c == {t \in (w - 14)..(w + 14) : t + Off(zone, t) = w}
    IN  IF c # {} THEN CHOOSE t \in c : \A u \in c : t <= u
        ELSE w - Off(zone, w - 24)

\* date.getDate(): the local day of the month
GetDate(zone, t) == CivilFromDays((t + Off(zone, t)) \div 24)[3]

\* date.setDate(n): day n of the local month (n may leave the month), the
\* local time of day kept
SetDate(zone, t, n) ==
    LET w     == t + Off(zone, t)
        local == CivilFromDays(w \div 24)
        day   == DaysFromCivil(<<local[1], local[2], 1>>) + n - 1
    IN  LocalToUTC(zone, day * 24 + (w % 24))

-----------------------------------------------------------------------------
(* The NASA store (zustand, persisted).                                    *)

FIRST_APOD_DATE == <<1995, 6, 16>>

\* the first day the clock of the model shows
FirstToday == DaysFromCivil(<<2025, 10, 30>>)

MaxClockDays  == 4    \* the clock advances this many days
PickSpan      == 3    \* the date picker reaches this many days before FirstToday
NearFloorDays == 2    \* ... and this many days after FIRST_APOD_DATE
MaxBelowFloor == 2    \* navigation is followed this many days below FIRST_APOD_DATE

ViewModes == {"today", "date", "random"}

\* the options of the page's "Number of Images" select
RandomCounts == {1, 2, 4, 6}

\* the APOD dates whose favorite button the model presses
FavDates == {<<1995, 6, 16>>, <<2025, 10, 29>>, <<2025, 10, 30>>}

getTodayString == CivilFromDays(today)

FloorDay == DaysFromCivil(FIRST_APOD_DATE)

\* the dates <input type='date' min='1995-06-16' max={today}> offers
PickDates ==
    {CivilFromDays(n) : n \in
        {k \in (FloorDay..(FloorDay + NearFloorDays)) \cup ((FirstToday - PickSpan)..today) :
            FloorDay <= k /\ k <= today}}

\* set(partial, true): the state replaced by the partial instead of merged
setReplacing(partial) ==
    /\ favorites' = IF "favorites" \in DOMAIN partial
                    THEN partial.favorites ELSE <<>>
    /\ preferences' = IF "preferences" \in DOMAIN partial
                      THEN partial.preferences ELSE preferences

\* zustand's set(partial): a shallow merge of the partial state
set(partial) ==
    /\ favorites' = IF "favorites" \in DOMAIN partial
                    THEN partial.favorites ELSE favorites
    /\ preferences' = IF "preferences" \in DOMAIN partial
                      THEN partial.preferences ELSE preferences

\* the list as it is, the date not filtered out of it
Unfiltered(favs, date) == favs

Without(favs, date) ==
    LET keep(d) == d # date IN SelectSeq(favs, keep)

isFavorite(date) == \E i \in DOMAIN favorites : favorites[i] = date

addToFavoritesUpdate(date) ==
    [favorites |-> Append(Without(favorites, date), date)]

removeFromFavoritesUpdate(date) ==
    [favorites |-> Without(favorites, date)]

addToFavorites(date) ==
    /\ set(addToFavoritesUpdate(date))
    /\ UNCHANGED <<tz, today, prefetchLog, notNasaVars>>

removeFromFavorites(date) ==
    /\ set(removeFromFavoritesUpdate(date))
    /\ UNCHANGED <<tz, today, prefetchLog, notNasaVars>>

\* a toggle that adds the date whether it is a favorite or not
toggleFavoriteAdding(date) == addToFavorites(date)

toggleFavorite(date) ==
    IF isFavorite(date) THEN removeFromFavorites(date) ELSE addToFavorites(date)

setViewModeUpdate(mode) ==
    [preferences |-> [preferences EXCEPT !.viewMode = mode]]

setRandomCountUpdate(count) ==
    [preferences |-> [preferences EXCEPT !.randomCount = count]]

setSelectedDateUpdate(date) ==
    [preferences |-> [preferences EXCEPT !.selectedDate = date]]

setViewMode(mode) ==
    /\ set(setViewModeUpdate(mode))
    /\ UNCHANGED <<tz, today, prefetchLog, notNasaVars>>

setRandomCount(count) ==
    /\ set(setRandomCountUpdate(count))
    /\ UNCHANGED <<tz, today, prefetchLog, notNasaVars>>

setSelectedDate(date) ==
    /\ set(setSelectedDateUpdate(date))
    /\ UNCHANGED <<tz, today, prefetchLog, notNasaVars>>

isToday == preferences.selectedDate = getTodayString

isFirstAPOD == preferences.selectedDate = FIRST_APOD_DATE

canGoNext == ~isToday

canGoPrevious == ~isFirstAPOD

\* currentDate.setDate(currentDate.getDate() - 1); toISOString().split('T')[0]
previousDayString(zone, selectedDate) ==
    LET currentDate == ParseDate(selectedDate)
    IN  ISODate(SetDate(zone, currentDate, GetDate(zone, currentDate) - 1))

\* currentDate.setDate(currentDate.getDate() + 1); toISOString().split('T')[0]
nextDayString(zone, selectedDate) ==
    LET currentDate == ParseDate(selectedDate)
    IN  ISODate(SetDate(zone, currentDate, GetDate(zone, currentDate) + 1))

\* the dates the model follows the navigation to
InWindow(date) ==
    LET n == DaysFromCivil(date)
    IN  \/ FloorDay - MaxBelowFloor <= n /\ n <= FloorDay + NearFloorDays + 1
        \/ FirstToday - PickSpan - 1 <= n /\ n <= FirstToday + MaxClockDays + 1

goToPreviousDay ==
    /\ InWindow(previousDayString(tz, preferences.selectedDate))
    /\ setSelectedDate(previousDayString(tz, preferences.selectedDate))

goToNextDay ==
    /\ InWindow(nextDayString(tz, preferences.selectedDate))
    /\ IF canGoNext
       THEN setSelectedDate(nextDayString(tz, preferences.selectedDate))
       ELSE UNCHANGED vars

goToToday == setSelectedDate(getTodayString)

\* midnight UTC passes
AdvanceClock ==
    /\ today < FirstToday + MaxClockDays
    /\ today' = today + 1
    /\ UNCHANGED <<tz, favorites, preferences, prefetchLog, notNasaVars>>

StoreInit ==
    /\ tz \in Zones
    /\ today = FirstToday
    /\ favorites = <<>>
    /\ preferences = [viewMode |-> "date", randomCount |-> 1,
                      selectedDate |-> getTodayString]
    /\ prefetchLog = NoPrefetch
    /\ KeysIdle /\ CursorIdle /\ FetchIdle /\ LaterIdle

StoreNext ==
    \/ \E date \in FavDates : addToFavorites(date)
    \/ \E date \in FavDates : removeFromFavorites(date)
    \/ \E date \in FavDates : toggleFavorite(date)
    \/ \E mode \in ViewModes : setViewMode(mode)
    \/ \E count \in RandomCounts : setRandomCount(count)
    \/ \E date \in PickDates : setSelectedDate(date)
    \/ goToPreviousDay
    \/ goToNextDay
    \/ goToToday
    \/ AdvanceClock

SpecStore == StoreInit /\ [][StoreNext]_vars

-----------------------------------------------------------------------------
(* usePrefetchAdjacentDates(selectedDate).prefetchAdjacent()               *)

\* the dates prefetchAdjacent hands to prefetchDate
prefetchAdjacent(zone, currentDate, todayStr) ==
    LET current      == ParseDate(currentDate)
        yesterdayStr == ISODate(SetDate(zone, current, GetDate(zone, current) - 1))
        tomorrowStr  == ISODate(SetDate(zone, current, GetDate(zone, current) + 1))
    IN  (IF DateLE(<<1995, 6, 16>>, yesterdayStr) THEN {yesterdayStr} ELSE {})
        \cup (IF DateLE(tomorrowStr, todayStr) THEN {tomorrowStr} ELSE {})

\* the page's effect: prefetchAdjacent() for the selected date
PrefetchAdjacent ==
    /\ prefetchLog' = [currentDate |-> preferences.selectedDate,
                       todayStr    |-> getTodayString,
                       attempted   |-> prefetchAdjacent(tz, preferences.selectedDate,
                                                        getTodayString)]
    /\ UNCHANGED <<tz, today, favorites, preferences, notNasaVars>>

PrefetchNext ==
    \/ PrefetchAdjacent
    \/ \E date \in PickDates : setSelectedDate(date)
    \/ goToPreviousDay
    \/ goToNextDay
    \/ goToToday
    \/ AdvanceClock

SpecPrefetch == StoreInit /\ [][PrefetchNext]_vars

-----------------------------------------------------------------------------
(* Query keys.  A parameter object is the sequence of its properties in    *)
(* insertion order, each [p |-> name, val |-> value]; a value is a literal *)
(* (a string, number, boolean, null or undefined, written as in the        *)
(* source) or an array of numbers.                                         *)

Lit(s) == [k |-> "lit", v |-> s, a |-> <<>>]
Arr(a) == [k |-> "arr", v |-> "", a |-> a]

Undefined == Lit("undefined")
Null == Lit("null")

\* params.p
Get(o, p) ==
    IF \E i \in DOMAIN o : o[i].p = p
    THEN o[CHOOSE i \in DOMAIN o : o[i].p = p].val
    ELSE Undefined

\* the value used as a condition: if (params.name) ...
Truthy(val) ==
    val.k = "arr" \/ val.v \notin {"undefined", "null", "''", "0", "false"}

\* the decimal digits of a number: what String(n) holds
RECURSIVE Digits(_)
Digits(n) == IF n < 10 THEN <<n>> ELSE Append(Digits(n \div 10), n % 10)

\* a < b in code-unit order
RECURSIVE CodeUnitLess(_, _)
CodeUnitLess(a, b) ==
    IF b = <<>> THEN FALSE
    ELSE IF a = <<>> THEN TRUE
    ELSE IF a[1] # b[1] THEN a[1] < b[1]
    ELSE CodeUnitLess(Tail(a), Tail(b))

RECURSIVE InsertSorted(_, _)
InsertSorted(x, s) ==
    IF s = <<>> THEN <<x>>
    ELSE IF CodeUnitLess(Digits(s[1]), Digits(x))
         THEN <<s[1]>> \o InsertSorted(x, Tail(s))
         ELSE <<x>> \o s

\* ids.sort(): no comparator, so the elements are ordered as strings
RECURSIVE sort(_)
sort(ids) == IF ids = <<>> THEN <<>> ELSE InsertSorted(ids[1], sort(Tail(ids)))

\* ids.join(',')
RECURSIVE join(_)
join(ids) ==
    IF ids = <<>> THEN ""
    ELSE IF Len(ids) = 1 THEN ToString(ids[1])
    ELSE ToString(ids[1]) \o "," \o join(Tail(ids))

\* the elements of a query key
Str(s) == [k |-> "str", s |-> s, o |-> <<>>]
Obj(o) == [k |-> "obj", s |-> "", o |-> o]
Nil == [k |-> "nil", s |-> "", o |-> <<>>]
Num(n) == [k |-> "num", s |-> ToString(n), o |-> <<>>]

rickandmortyAll == <<Str("rickandmorty")>>

\* JSON.stringify(params): the properties in insertion order
RECURSIVE InsertionOrderJSON(_)
InsertionOrderJSON(o) ==
    IF o = <<>> THEN ""
    ELSE (IF o[1].val = Undefined THEN ""
          ELSE o[1].p \o ":"
               \o (IF o[1].val.k = "arr" THEN "[" \o join(o[1].val.a) \o "]"
                   ELSE o[1].val.v) \o ",")
         \o InsertionOrderJSON(Tail(o))

\* a key that holds the parameters as a string the caller serialized
charactersStringified(ps) ==
    rickandmortyAll
        \o <<Str("characters"), Str("search"), Str(InsertionOrderJSON(ps))>>

characters(ps) == rickandmortyAll \o <<Str("characters"), Str("search"), Obj(ps)>>

charactersInfinite(ps) ==
    rickandmortyAll \o <<Str("characters"), Str("infinite"), Obj(ps)>>

\* ids.join(',') without the sort
unsortedIds(ps) ==
    LET ids == Get(ps, "ids")
    IN  IF ids.k = "arr" THEN Str(join(ids.a)) ELSE Nil

\* Array.isArray(ids) ? ids.sort().join(',') : ids
normalizedIds(ps) ==
    LET ids == Get(ps, "ids")
    IN  IF ids.k = "arr" THEN Str(join(sort(ids.a))) ELSE Nil

charactersByIds(ps) ==
    rickandmortyAll \o <<Str("characters"), Str("byIds"), normalizedIds(ps)>>

\* ids.sort() sorts the caller's array in place
AfterCharactersByIds(ps) ==
    [i \in DOMAIN ps |->
        IF ps[i].p = "ids" /\ ps[i].val.k = "arr"
        THEN [ps[i] EXCEPT !.val = Arr(sort(ps[i].val.a))]
        ELSE ps[i]]

locations(ps) == rickandmortyAll \o <<Str("locations"), Str("search"), Obj(ps)>>

locationsInfinite(ps) ==
    rickandmortyAll \o <<Str("locations"), Str("infinite"), Obj(ps)>>

episodes(ps) == rickandmortyAll \o <<Str("episodes"), Str("search"), Obj(ps)>>

episodesInfinite(ps) ==
    rickandmortyAll \o <<Str("episodes"), Str("infinite"), Obj(ps)>>

nasaAll == <<Str("nasa")>>

apods == nasaAll \o <<Str("apod")>>

\* a key that leaves the parameters out
apodsOnly(ps) == apods

apod(ps) == apods \o <<Obj(ps)>>

random(count) == apods \o <<Str("random"), Num(count)>>

\* the query client's hash of a key (JSON.stringify with the properties of
\* every object sorted by name): the cache holds one entry per hash.
\* The property names of the request types, in code-unit order.
PropNames ==
    <<"count", "date", "dimension", "end_date", "episode", "gender", "ids",
      "name", "page", "species", "start_date", "status", "thumbs", "type">>

RECURSIVE ArrTokens(_)
ArrTokens(a) ==
    IF a = <<>> THEN <<>> ELSE <<ToString(a[1])>> \o ArrTokens(Tail(a))

ValTokens(val) ==
    IF val.k = "arr" THEN <<"[">> \o ArrTokens(val.a) \o <<"]">> ELSE <<val.v>>

\* the properties from name number i on, undefined ones left out
RECURSIVE ObjTokens(_, _)
ObjTokens(o, i) ==
    IF i > Len(PropNames) THEN <<>>
    ELSE LET val == Get(o, PropNames[i])
         IN  (IF val = Undefined THEN <<>>
              ELSE <<PropNames[i], ":">> \o ValTokens(val))
             \o ObjTokens(o, i + 1)

RECURSIVE hashKey(_)
hashKey(key) ==
    IF key = <<>> THEN <<>>
    ELSE (CASE key[1].k = "str" -> <<"'" \o key[1].s \o "'">>
            [] key[1].k = "nil" -> <<"null">>
            [] key[1].k = "num" -> <<key[1].s>>
            [] key[1].k = "obj" -> <<"{">> \o ObjTokens(key[1].o, 1) \o <<"}">>)
         \o hashKey(Tail(key))

\* the key a hook builds for its parameters
buildKey(h, ps) ==
    CASE h = "characters" -> characters(ps)
      [] h = "charactersInfinite" -> charactersInfinite(ps)
      [] h = "charactersByIds" -> charactersByIds(ps)
      [] h = "locations" -> locations(ps)
      [] h = "locationsInfinite" -> locationsInfinite(ps)
      [] h = "episodes" -> episodes(ps)
      [] h = "episodesInfinite" -> episodesInfinite(ps)
      [] h = "apod" -> apod(ps)

\* the parameter object after the hook built its key
afterBuild(h, ps) == IF h = "charactersByIds" THEN AfterCharactersByIds(ps) ELSE ps

\* two callers render: each hook builds its query key
BuildKeys ==
    /\ hook # <<>> /\ queryKey = <<>>
    /\ queryKey' = <<buildKey(hook[1], params[1]), buildKey(hook[2], params[2])>>
    /\ params' = <<afterBuild(hook[1], params[1]), afterBuild(hook[2], params[2])>>
    /\ UNCHANGED <<hook, given, notKeyVars>>

\* the hooks whose key holds the parameter object
ObjectHooks ==
    {"characters", "charactersInfinite", "locations", "locationsInfinite",
     "episodes", "episodesInfinite", "apod"}

\* the properties the model gives a hook's parameter object
HookProps(h) ==
    CASE h = "characters" -> {"name", "status", "page"}
      [] h = "charactersInfinite" -> {"name", "gender", "ids"}
      [] h \in {"locations", "locationsInfinite"} -> {"name", "type", "dimension"}
      [] h \in {"episodes", "episodesInfinite"} -> {"name", "episode"}
      [] h = "apod" -> {"date", "count", "thumbs"}

\* ... and the values it gives a property
PropVals(p) ==
    CASE p = "name" -> {Lit("'rick'"), Lit("'morty'")}
      [] p = "status" -> {Lit("'Alive'"), Null}
      [] p = "page" -> {Lit("1"), Lit("2")}
      [] p = "gender" -> {Lit("'Male'"), Undefined}
      [] p = "ids" -> {Arr(<<>>), Null}
      [] p = "type" -> {Lit("'Planet'"), Lit("''")}
      [] p = "dimension" -> {Lit("'C-137'"), Lit("'unknown'")}
      [] p = "episode" -> {Lit("'S01E01'"), Lit("'S01'")}
      [] p = "date" -> {Lit("'2025-10-30'"), Lit("'1995-06-16'")}
      [] p = "count" -> {Lit("1"), Lit("2")}
      [] p = "thumbs" -> {Lit("true"), Lit("false")}

MaxProps == 2    \* a parameter object holds at most this many properties

\* the parameter objects of a hook: every choice and insertion order of
\* at most MaxProps of its properties
Objects(h) ==
    LET pairs == {[p |-> p, val |-> val] : <<p, val>> \in
                    UNION {{p} \X PropVals(p) : p \in HookProps(h)}}
    IN  {o \in UNION {[1..n -> pairs] : n \in 0..MaxProps} :
            \A i, j \in DOMAIN o : o[i].p = o[j].p => i = j}

KeysInit ==
    /\ \E h \in ObjectHooks :
          /\ hook = <<h, h>>
          /\ given \in Objects(h) \X Objects(h)
    /\ params = given
    /\ queryKey = <<>>
    /\ tz = "UTC" /\ today = FirstToday /\ favorites = <<>>
    /\ preferences = [viewMode |-> "date", randomCount |-> 1,
                      selectedDate |-> getTodayString]
    /\ prefetchLog = NoPrefetch
    /\ CursorIdle /\ FetchIdle /\ LaterIdle

SpecKeys == KeysInit /\ [][BuildKeys]_vars

MaxIds == 3      \* an ids list holds at most this many ids

\* the ids the model puts in a list
IdVals == {1, 2, 3, 10}

IdLists == UNION {[1..n -> IdVals] : n \in 0..MaxIds}

IdsObject(ids) == <<[p |-> "ids", val |-> Arr(ids)]>>

ByIdsInit ==
    /\ hook = <<"charactersByIds", "charactersByIds">>
    /\ given \in {IdsObject(ids) : ids \in IdLists} \X {IdsObject(ids) : ids \in IdLists}
    /\ params = given
    /\ queryKey = <<>>
    /\ tz = "UTC" /\ today = FirstToday /\ favorites = <<>>
    /\ preferences = [viewMode |-> "date", randomCount |-> 1,
                      selectedDate |-> getTodayString]
    /\ prefetchLog = NoPrefetch
    /\ CursorIdle /\ FetchIdle /\ LaterIdle

SpecByIds == ByIdsInit /\ [][BuildKeys]_vars

\* the query string and path fetchRickAndMortyCharacters sends
characterUrl(ps) ==
    LET ids == Get(ps, "ids")
        pathParams == IF ids.k = "arr" /\ Len(ids.a) > 0 THEN <<"/", join(ids.a)>>
                      ELSE <<>>
        append(p) == IF Truthy(Get(ps, p)) THEN <<p, "=", Get(ps, p).v>> ELSE <<>>
    IN  <<"rickandmorty/character">> \o pathParams \o <<"?">>
        \o append("name") \o append("gender") \o append("status")
        \o append("species") \o append("type") \o append("page")

\* the hook that is enabled for a request: (params.ids?.length ?? 0) > 0
enabledHook(ps) ==
    LET ids == Get(ps, "ids")
    IN  IF ids.k = "arr" /\ Len(ids.a) > 0 THEN "charactersByIds" ELSE "characters"

MaxRequestIds == 2    \* a character request of the model names at most this many ids

RequestIdVals == {1, 2, 10}

\* character requests: name, page and ids given or left out
CharacterRequests ==
    LET opt(p, vals) == {<<>>} \cup {<<[p |-> p, val |-> val]>> : val \in vals}
        idLists == UNION {[1..n -> RequestIdVals] : n \in 0..MaxRequestIds}
    IN  {n \o pg \o ids :
            n \in opt("name", {Lit("'rick'"), Lit("'morty'")}),
            pg \in opt("page", {Lit("2")}),
            ids \in opt("ids", {Arr(l) : l \in idLists})}

CharactersInit ==
    /\ given \in CharacterRequests \X CharacterRequests
    /\ hook = <<enabledHook(given[1]), enabledHook(given[2])>>
    /\ params = given
    /\ queryKey = <<>>
    /\ tz = "UTC" /\ today = FirstToday /\ favorites = <<>>
    /\ preferences = [viewMode |-> "date", randomCount |-> 1,
                      selectedDate |-> getTodayString]
    /\ prefetchLog = NoPrefetch
    /\ CursorIdle /\ FetchIdle /\ LaterIdle

SpecCharacters == CharactersInit /\ [][BuildKeys]_vars

-----------------------------------------------------------------------------
(* Page cursors of the infinite queries.  A string is the sequence of its  *)
(* characters; a field of the page envelope is undefined, null or a string.*)

NasaIdle ==
    /\ tz = "UTC" /\ today = FirstToday /\ favorites = <<>>
    /\ preferences = [viewMode |-> "date", randomCount |-> 1,
                      selectedDate |-> getTodayString]
    /\ prefetchLog = NoPrefetch

Letters == {"a", "b", "c", "e", "g", "h", "m", "n", "p", "s", "t", "x"}
DigitChars == <<"0", "1", "2", "3", "4", "5", "6", "7", "8", "9">>

IsDigit(c) == \E i \in DOMAIN DigitChars : DigitChars[i] = c
DigitValue(c) == (CHOOSE i \in DOMAIN DigitChars : DigitChars[i] = c) - 1

\* String(n)
Decimal(n) == [i \in 1..Len(Digits(n)) |-> DigitChars[Digits(n)[i] + 1]]

\* s.indexOf(c) + 1: the position of the first c in s, 0 when there is none
IndexOf(s, c) ==
    IF \E i \in DOMAIN s : s[i] = c
    THEN CHOOSE i \in DOMAIN s : s[i] = c /\ \A j \in 1..(i - 1) : s[j] # c
    ELSE 0

\* s.slice(i - 1)
From(s, i) == SubSeq(s, i, Len(s))

\* s with its leading slashes removed
RECURSIVE SkipSlashes(_)
SkipSlashes(s) ==
    IF s # <<>> /\ s[1] = "/" THEN SkipSlashes(Tail(s)) ELSE s

\* the part of s before the first character of stops
RECURSIVE Until(_, _)
Until(s, stops) ==
    IF s = <<>> \/ s[1] \in stops THEN <<>>
    ELSE <<s[1]>> \o Until(Tail(s), stops)

SpecialSchemes == {<<"h", "t", "t", "p">>, <<"h", "t", "t", "p", "s">>}

TypeError == [ok |-> FALSE, search |-> <<>>]

\* new URL(input), no base: a TypeError unless input starts with a scheme
\* and, for http(s), names a host; the result holds the query of the URL.
\* (Exact for inputs over Letters, digits and : / ? & = . - only.)
NewURL(input) ==
    LET colon == IndexOf(input, ":")
        scheme == SubSeq(input, 1, colon - 1)
        rest == From(input, colon + 1)
        host == Until(SkipSlashes(rest), {"/", "?", "#"})
        mark == IndexOf(rest, "?")
    IN  IF \/ colon <= 1
           \/ scheme[1] \notin Letters
           \/ \E i \in DOMAIN scheme :
                 scheme[i] \notin Letters \cup {"+", "-", "."}
                 /\ ~IsDigit(scheme[i])
        THEN TypeError
        ELSE IF scheme \in SpecialSchemes /\ host = <<>>
        THEN TypeError
        ELSE [ok |-> TRUE,
              search |-> IF mark = 0 THEN <<>>
                         ELSE Until(From(rest, mark + 1), {"#"})]

\* the pieces of s between the separators sep
RECURSIVE Split(_, _)
Split(s, sep) ==
    LET i == IndexOf(s, sep)
    IN  IF i = 0 THEN <<s>>
        ELSE <<SubSeq(s, 1, i - 1)>> \o Split(From(s, i + 1), sep)

NoParam == [found |-> FALSE, value |-> <<>>]

\* the value of the first name=value pair of pairs, whatever its name
firstParamValue(search, name) ==
    LET pairs == SelectSeq(Split(search, "&"), LAMBDA q : q # <<>>)
    IN  IF pairs = <<>> THEN NoParam
        ELSE [found |-> TRUE,
              value |-> IF IndexOf(pairs[1], "=") = 0 THEN <<>>
                        ELSE From(pairs[1], IndexOf(pairs[1], "=") + 1)]

\* url.searchParams.get(name): the value of the first pair called name,
\* null when there is none
searchParamsGet(search, name) ==
    LET pairs == SelectSeq(Split(search, "&"), LAMBDA q : q # <<>>)
        NameOf(q) == IF IndexOf(q, "=") = 0 THEN q
                     ELSE SubSeq(q, 1, IndexOf(q, "=") - 1)
        named == SelectSeq(pairs, LAMBDA q : NameOf(q) = name)
    IN  IF named = <<>> THEN NoParam
        ELSE [found |-> TRUE,
              value |-> IF IndexOf(named[1], "=") = 0 THEN <<>>
                        ELSE From(named[1], IndexOf(named[1], "=") + 1)]

\* what a page-param callback gives back
Number(n) == [kind |-> "number", n |-> n]
NaN == [kind |-> "NaN", n |-> 0]
UndefinedPage == [kind |-> "undefined", n |-> 0]
Throws == [kind |-> "throws TypeError", n |-> 0]
NotCalled == [kind |-> "not called", n |-> 0]

\* the number written by a sequence of digits
RECURSIVE ValueOf(_)
ValueOf(ds) ==
    IF ds = <<>> THEN 0
    ELSE 10 * ValueOf(SubSeq(ds, 1, Len(ds) - 1)) + DigitValue(ds[Len(ds)])

\* the leading digits of s
RECURSIVE LeadingDigits(_)
LeadingDigits(s) ==
    IF s = <<>> \/ ~IsDigit(s[1]) THEN <<>>
    ELSE <<s[1]>> \o LeadingDigits(Tail(s))

\* parseInt(s, 10): an optional sign and the leading digits; NaN without one
parseInt(s) ==
    LET signed == s # <<>> /\ s[1] \in {"-", "+"}
        digits == LeadingDigits(IF signed THEN Tail(s) ELSE s)
    IN  IF digits = <<>> THEN NaN
        ELSE IF signed /\ s[1] = "-" THEN Number(0 - ValueOf(digits))
        ELSE Number(ValueOf(digits))

AbsentField == [k |-> "undefined", s |-> <<>>]
NullField == [k |-> "null", s |-> <<>>]
StringField(s) == [k |-> "string", s |-> s]

PageName == <<"p", "a", "g", "e">>

\* getNextPageParam of the characters, episodes and locations infinite
\* queries (the three are the same code)
getNextPageParam(page) ==
    IF page.next.k = "string" /\ page.next.s # <<>>
    THEN LET url == NewURL(page.next.s)
             nextPage == searchParamsGet(url.search, PageName)
         IN  IF ~url.ok THEN Throws
             ELSE IF nextPage.found /\ nextPage.value # <<>>
             THEN parseInt(nextPage.value)
             ELSE UndefinedPage
    ELSE UndefinedPage

\* getPreviousPageParam of the same three queries
getPreviousPageParam(firstPage) ==
    IF firstPage.prev.k = "string" /\ firstPage.prev.s # <<>>
    THEN LET url == NewURL(firstPage.prev.s)
             prevPage == searchParamsGet(url.search, PageName)
         IN  IF ~url.ok THEN Throws
             ELSE IF prevPage.found /\ prevPage.value # <<>>
             THEN parseInt(prevPage.value)
             ELSE UndefinedPage
    ELSE UndefinedPage

GetNextPageParam ==
    /\ pager # ""
    /\ pageParam.next = NotCalled
    /\ pageParam' = [pageParam EXCEPT !.next = getNextPageParam(lastPage)]
    /\ UNCHANGED <<pager, lastPage, notCursorVars>>

GetPreviousPageParam ==
    /\ pager # ""
    /\ pageParam.prev = NotCalled
    /\ pageParam' = [pageParam EXCEPT !.prev = getPreviousPageParam(lastPage)]
    /\ UNCHANGED <<pager, lastPage, notCursorVars>>

MaxPageNo == 12    \* the pages of a listing are numbered 1..MaxPageNo

Pagers == {"charactersInfinite", "episodesInfinite", "locationsInfinite"}

Origin == <<"h", "t", "t", "p", "s", ":", "/", "/", "a", ".", "b">>
Path == <<"/", "c", "/">>
PageQuery(n) == <<"?">> \o PageName \o <<"=">> \o Decimal(n)
NameAndPageQuery(n) ==
    <<"?", "n", "a", "m", "e", "=", "x", "&">> \o PageName \o <<"=">>
        \o Decimal(n)

\* the cursors of page n: ".../?page=n", alone or after another parameter
PageCursors(n) ==
    {StringField(Origin \o Path \o PageQuery(n)),
     StringField(Origin \o Path \o NameAndPageQuery(n))}

\* strings that are no absolute URL
InvalidURLs ==
    {StringField(Path \o PageQuery(2)),
     StringField(<<"a", ".", "b">> \o Path \o PageQuery(2)),
     StringField(<<"h", "t", "t", "p", "s", ":", "/", "/">> \o PageQuery(2))}

\* URLs without a page parameter
NoPageURLs ==
    {StringField(Origin \o Path),
     StringField(Origin \o Path \o <<"?", "n", "a", "m", "e", "=", "x">>),
     StringField(Origin \o Path \o <<"?">> \o PageName \o <<"=">>)}

\* URLs whose page parameter is not a number
NonNumericPageURLs ==
    {StringField(Origin \o Path \o <<"?">> \o PageName \o <<"=", "x">>),
     StringField(Origin \o Path \o <<"?">> \o PageName \o <<"=", "2", "x">>)}

Cursors ==
    {AbsentField, NullField, StringField(<<>>)}
        \cup UNION {PageCursors(n) : n \in 1..MaxPageNo}
        \cup InvalidURLs \cup NoPageURLs \cup NonNumericPageURLs

CursorInit ==
    /\ pager \in Pagers
    /\ lastPage \in [next : Cursors, prev : Cursors]
    /\ pageParam = [next |-> NotCalled, prev |-> NotCalled]
    /\ NasaIdle /\ KeysIdle /\ FetchIdle /\ LaterIdle

CursorNext == GetNextPageParam \/ GetPreviousPageParam

SpecCursor == CursorInit /\ [][CursorNext]_vars

-----------------------------------------------------------------------------
(* Request wrappers.  What the network did with a request is a response    *)
(* [status, body], a timeout of the abort signal or a failed connection;   *)
(* a body is the sequence of its JSON tokens.                              *)

P(c) == [t |-> "punctuation", v |-> c]
S(s) == [t |-> "string", v |-> s]
Word(w) == [t |-> "word", v |-> w]

JNull == [k |-> "null", s |-> "", o |-> <<>>]
JUndefined == [k |-> "undefined", s |-> "", o |-> <<>>]
JString(s) == [k |-> "string", s |-> s, o |-> <<>>]
JObject(o) == [k |-> "object", s |-> "", o |-> o]

SyntaxError == [ok |-> FALSE, val |-> JUndefined]
Parsed(v) == [ok |-> TRUE, val |-> v]

IsScalar(tok) == tok.t = "string" \/ tok = Word("null")
ParseScalar(tok) == IF tok.t = "string" THEN JString(tok.v) ELSE JNull

\* the members of an object: "name": value, separated by commas
RECURSIVE ParseMembers(_)
ParseMembers(toks) ==
    IF \/ Len(toks) < 3
       \/ toks[1].t # "string" \/ toks[2] # P(":") \/ ~IsScalar(toks[3])
    THEN [ok |-> FALSE, o |-> <<>>]
    ELSE LET member == [p |-> toks[1].v, val |-> ParseScalar(toks[3])]
         IN  IF Len(toks) = 3 THEN [ok |-> TRUE, o |-> <<member>>]
             ELSE IF toks[4] # P(",") THEN [ok |-> FALSE, o |-> <<>>]
             ELSE LET rest == ParseMembers(SubSeq(toks, 5, Len(toks)))
                  IN  [ok |-> rest.ok,
                       o |-> IF rest.ok THEN <<member>> \o rest.o ELSE <<>>]

\* response.json(): the value of the body, or a rejection
json(body) ==
    IF body = <<>> THEN SyntaxError
    ELSE IF Len(body) = 1
    THEN (IF IsScalar(body[1]) THEN Parsed(ParseScalar(body[1]))
          ELSE SyntaxError)
    ELSE IF body[1] = P("{") /\ body[Len(body)] = P("}")
    THEN (IF Len(body) = 2 THEN Parsed(JObject(<<>>))
          ELSE LET members == ParseMembers(SubSeq(body, 2, Len(body) - 1))
               IN  IF members.ok THEN Parsed(JObject(members.o))
                   ELSE SyntaxError)
    ELSE SyntaxError

\* value.name, for a value that is not null
Member(value, name) ==
    IF \E i \in DOMAIN value.o : value.o[i].p = name
    THEN value.o[CHOOSE i \in DOMAIN value.o :
                    /\ value.o[i].p = name
                    /\ \A j \in DOMAIN value.o : value.o[j].p = name => j <= i].val
    ELSE JUndefined

\* CONFIG of lib/config.ts: the sections that hold a request timeout
CONFIG == [nasa |-> [timeout |-> 10000, retries |-> 3]]

\* CONFIG.<section>.timeout can be read
HasTimeout(section) == section \in DOMAIN CONFIG

\* response.ok
Ok(response) == response.status >= 200 /\ response.status <= 299

Resolved(data) ==
    [kind |-> "resolved", name |-> "", status |-> 0, detail |-> "",
     data |-> data]

NASAAPIError(status, detail) ==
    [kind |-> "rejected", name |-> "NASAAPIError", status |-> status,
     detail |-> detail, data |-> JUndefined]

RickAndMortyAPIError(status, detail) ==
    [kind |-> "rejected", name |-> "RickAndMortyAPIError", status |-> status,
     detail |-> detail, data |-> JUndefined]

\* the inner try of fetchAPOD: errorData.detail || errorDetail
errorDetail(response) ==
    LET errorData == json(response.body)
        default == "Failed to fetch NASA APOD data"
    IN  IF ~errorData.ok \/ errorData.val.k = "null" THEN default
        ELSE IF Member(errorData.val, "detail").k = "string"
                /\ Member(errorData.val, "detail").s # ""
        THEN Member(errorData.val, "detail").s
        ELSE default

fetchAPOD(reply) ==
    IF ~HasTimeout("nasa") \/ reply.kind # "response"
    THEN NASAAPIError(500, "Network error: Unable to connect to NASA API")
    ELSE IF ~Ok(reply)
    THEN NASAAPIError(reply.status, errorDetail(reply))
    ELSE IF json(reply.body).ok THEN Resolved(json(reply.body).val)
    ELSE NASAAPIError(500, "Network error: Unable to connect to NASA API")

\* the body shared by the three fetchRickAndMorty* functions; reading
\* CONFIG.api.timeout throws inside the try when CONFIG has no api section
fetchRickAndMorty(failed, reply) ==
    IF ~HasTimeout("api") \/ reply.kind # "response"
    THEN RickAndMortyAPIError(500,
            "Network error: Unable to connect to Rick and Morty API")
    ELSE IF ~Ok(reply) THEN RickAndMortyAPIError(reply.status, failed)
    ELSE IF json(reply.body).ok THEN Resolved(json(reply.body).val)
    ELSE RickAndMortyAPIError(500,
            "Network error: Unable to connect to Rick and Morty API")

fetchRickAndMortyCharacters(reply) ==
    fetchRickAndMorty("Failed to fetch Rick and Morty characters", reply)

fetchRickAndMortyEpisodes(reply) ==
    fetchRickAndMorty("Failed to fetch Rick and Morty episodes", reply)

fetchRickAndMortyLocations(reply) ==
    fetchRickAndMorty("Failed to fetch Rick and Morty locations", reply)

Statuses == {200, 201, 204, 400, 404, 429, 500, 503}

Bodies ==
    {<<>>,
     <<Word("null")>>,
     <<P("<"), Word("html"), P(">")>>,
     <<P("{"), P("}")>>,
     <<P("{"), S("detail"), P(":")>>,
     <<P("{"), S("title"), P(":"), S("Orion"), P("}")>>,
     <<P("{"), S("detail"), P(":"), S("Not found"), P("}")>>,
     <<P("{"), S("detail"), P(":"), S(""), P("}")>>,
     <<P("{"), S("detail"), P(":"), Word("null"), P("}")>>,
     <<P("{"), S("code"), P(":"), S("E42"), P(","),
       S("detail"), P(":"), S("Rate limit exceeded"), P("}")>>,
     <<P("{"), S("detail"), P(":"),
       S("Network error: Unable to connect to NASA API"), P("}")>>,
     <<P("{"), S("detail"), P(":"),
       S("Network error: Unable to connect to Rick and Morty API"), P("}")>>}

Reply(status, body) == [kind |-> "response", status |-> status, body |-> body]
TimedOut == [kind |-> "timeout", status |-> 0, body |-> <<>>]
ConnectionFailed == [kind |-> "connection failed", status |-> 0, body |-> <<>>]

Replies ==
    {Reply(s, b) : s \in Statuses, b \in Bodies} \cup {TimedOut, ConnectionFailed}

FetchAPOD ==
    /\ \E reply \in Replies :
          /\ upstream' = reply
          /\ outcome' = fetchAPOD(reply)
    /\ call' = "fetchAPOD"
    /\ UNCHANGED notFetchVars

FetchRickAndMortyCharacters ==
    /\ \E reply \in Replies :
          /\ upstream' = reply
          /\ outcome' = fetchRickAndMortyCharacters(reply)
    /\ call' = "fetchRickAndMortyCharacters"
    /\ UNCHANGED notFetchVars

FetchRickAndMortyEpisodes ==
    /\ \E reply \in Replies :
          /\ upstream' = reply
          /\ outcome' = fetchRickAndMortyEpisodes(reply)
    /\ call' = "fetchRickAndMortyEpisodes"
    /\ UNCHANGED notFetchVars

FetchRickAndMortyLocations ==
    /\ \E reply \in Replies :
          /\ upstream' = reply
          /\ outcome' = fetchRickAndMortyLocations(reply)
    /\ call' = "fetchRickAndMortyLocations"
    /\ UNCHANGED notFetchVars

FetchInit == FetchIdle /\ NasaIdle /\ KeysIdle /\ CursorIdle /\ LaterIdle

FetchNext ==
    \/ FetchAPOD
    \/ FetchRickAndMortyCharacters
    \/ FetchRickAndMortyEpisodes
    \/ FetchRickAndMortyLocations

SpecFetch == FetchInit /\ [][FetchNext]_vars

-----------------------------------------------------------------------------
(* The query cache and its writers.  The data of an entry is the sequence  *)
(* of the APODs written to it (one for a by-date entry), <<>> before the   *)
(* first write; an APOD is [date, rev], rev telling apart what upstream    *)
(* served at different times.                                              *)

EarlierIdle == NasaIdle /\ KeysIdle /\ CursorIdle /\ FetchIdle

notCacheVars == <<nasaVars, keyVars, cursorVars, fetchVars, uiVars, pageVars, wireVars, debounceVars, envVars, hookVars, retryVars>>

MaxRev == 2          \* upstream serves revisions 1..MaxRev of an APOD
MaxMutations == 2    \* usePrefetchAPOD mutations pending for one date

CacheDates == {"'2025-10-29'", "'2025-10-30'"}
CacheCounts == {2}

\* { date }
DateParams(date) == <<[p |-> "date", val |-> Lit(date)]>>

APOD(date, rev) == [date |-> date, rev |-> rev]

\* what fetchAPOD({ count }) can resolve to
RandomLists(count) ==
    {[i \in 1..count |-> APOD(ds[i], rev)] :
        ds \in [1..count -> CacheDates], rev \in 1..MaxRev}

CacheKeys ==
    {hashKey(apod(DateParams(d))) : d \in CacheDates}
        \cup {hashKey(random(c)) : c \in CacheCounts}

\* queryClient.setQueryData(key, data), and the write of a fetch that
\* resolved: the entry of the key's hash takes the data
setQueryData(cache, key, data) == [cache EXCEPT ![hashKey(key)] = data]

\* useAPODByDate(date), and prefetchDate(date): what the cache holds under
\* the hook's queryKey, nasaKeys.apod({ date })
useAPODByDate(cache, date) == cache[hashKey(apod(DateParams(date)))]

\* a select that writes the first APOD of the list only
selectFirstOnly(cache, data) ==
    IF data = <<>> THEN cache
    ELSE setQueryData(cache, apod(DateParams(data[1].date)), <<data[1]>>)

\* select of useAPODRandom: every APOD of the list is written to its
\* by-date entry, in the order of the list
RECURSIVE select(_, _)
select(cache, data) ==
    IF data = <<>> THEN cache
    ELSE select(setQueryData(cache, apod(DateParams(data[1].date)), <<data[1]>>),
                Tail(data))

\* the record of the writes completed: the by-date writes of a list
RECURSIVE Selected(_, _)
Selected(log, data) ==
    IF data = <<>> THEN log
    ELSE Selected([log EXCEPT !.byDate[data[1].date] = <<data[1]>>], Tail(data))

\* useAPODByDate's fetch, or prefetchDate's prefetchQuery: the query client
\* starts one fetch per key and joins a fetch already in flight for it
QueryFetch(date) ==
    /\ \A d \in inFlight.query :
          hashKey(apod(DateParams(d))) # hashKey(apod(DateParams(date)))
    /\ inFlight' = [inFlight EXCEPT !.query = @ \cup {date}]
    /\ UNCHANGED <<queryCache, lastWrite, notCacheVars>>

\* fetchAPOD({ date }) resolved: the query client writes the entry
QueryFetched(date, rev) ==
    /\ date \in inFlight.query
    /\ inFlight' = [inFlight EXCEPT !.query = @ \ {date}]
    /\ queryCache' = setQueryData(queryCache, apod(DateParams(date)),
                                  <<APOD(date, rev)>>)
    /\ lastWrite' = [lastWrite EXCEPT !.byDate[date] = <<APOD(date, rev)>>]
    /\ UNCHANGED notCacheVars

\* usePrefetchAPOD().mutate({ date }): the mutation calls fetchAPOD itself
PrefetchAPOD(date) ==
    /\ inFlight.mutation[date] < MaxMutations
    /\ inFlight' = [inFlight EXCEPT !.mutation[date] = @ + 1]
    /\ UNCHANGED <<queryCache, lastWrite, notCacheVars>>

\* the mutation's fetchAPOD resolved: setQueryData(nasaKeys.apod(params), data)
PrefetchAPODFetched(date, rev) ==
    /\ inFlight.mutation[date] > 0
    /\ inFlight' = [inFlight EXCEPT !.mutation[date] = @ - 1]
    /\ queryCache' = setQueryData(queryCache, apod(DateParams(date)),
                                  <<APOD(date, rev)>>)
    /\ lastWrite' = [lastWrite EXCEPT !.byDate[date] = <<APOD(date, rev)>>]
    /\ UNCHANGED notCacheVars

\* refetch() of useAPODRandom(count)
RefetchRandom(count) ==
    /\ count \notin inFlight.random
    /\ inFlight' = [inFlight EXCEPT !.random = @ \cup {count}]
    /\ UNCHANGED <<queryCache, lastWrite, notCacheVars>>

\* fetchAPOD({ count }) resolved: the list is written to the random entry
\* and select writes each APOD of it to its by-date entry
RandomFetched(count, data) ==
    /\ count \in inFlight.random
    /\ inFlight' = [inFlight EXCEPT !.random = @ \ {count}]
    /\ queryCache' = select(setQueryData(queryCache, random(count), data), data)
    /\ lastWrite' = Selected([lastWrite EXCEPT !.byCount[count] = data], data)
    /\ UNCHANGED notCacheVars

\* a render of the page runs select again, on the list the random entry holds
SelectAgain(count) ==
    /\ queryCache[hashKey(random(count))] # <<>>
    /\ queryCache' = select(queryCache, queryCache[hashKey(random(count))])
    /\ lastWrite' = Selected(lastWrite, queryCache[hashKey(random(count))])
    /\ UNCHANGED <<inFlight, notCacheVars>>

\* a fetchAPOD call rejected: nothing is written
FetchFailed ==
    /\ \/ \E date \in inFlight.query :
             inFlight' = [inFlight EXCEPT !.query = @ \ {date}]
       \/ \E date \in CacheDates :
             /\ inFlight.mutation[date] > 0
             /\ inFlight' = [inFlight EXCEPT !.mutation[date] = @ - 1]
       \/ \E count \in inFlight.random :
             inFlight' = [inFlight EXCEPT !.random = @ \ {count}]
    /\ UNCHANGED <<queryCache, lastWrite, notCacheVars>>

CacheInit ==
    /\ queryCache = [h \in CacheKeys |-> <<>>]
    /\ inFlight = [query |-> {}, mutation |-> [d \in CacheDates |-> 0],
                   random |-> {}]
    /\ lastWrite = [byDate |-> [d \in CacheDates |-> <<>>],
                    byCount |-> [c \in CacheCounts |-> <<>>]]
    /\ EarlierIdle /\ UiIdle /\ PageIdle /\ WireIdle /\ DebounceIdle /\ EnvIdle /\ HooksIdle /\ RetryIdle

CacheNext ==
    \/ \E date \in CacheDates : QueryFetch(date)
    \/ \E date \in CacheDates, rev \in 1..MaxRev : QueryFetched(date, rev)
    \/ \E date \in CacheDates : PrefetchAPOD(date)
    \/ \E date \in CacheDates, rev \in 1..MaxRev : PrefetchAPODFetched(date, rev)
    \/ \E count \in CacheCounts : RefetchRandom(count)
    \/ \E count \in CacheCounts :
          \E data \in RandomLists(count) : RandomFetched(count, data)
    \/ \E count \in CacheCounts : SelectAgain(count)
    \/ FetchFailed

SpecCache == CacheInit /\ [][CacheNext]_vars

-----------------------------------------------------------------------------
(* APODCard: the image of a card, its fallback and its error state.        *)

notUiVars == <<nasaVars, keyVars, cursorVars, fetchVars, cacheVars, pageVars, wireVars, debounceVars, envVars, hookVars, retryVars>>

IMAGES_FALLBACK == "/placeholder.jpg"

CardDates == {"2025-10-28", "2025-10-29", "2025-10-30"}
CardUrls == {"https://apod.nasa.gov/a.jpg", "https://apod.nasa.gov/b.jpg", "", " "}
Apods == [date : CardDates, url : CardUrls, media_type : {"image", "video"}]

\* url.trim(), for the urls of CardUrls
Trim(url) == IF url = " " THEN "" ELSE url

isVideo(item) == item.media_type = "video"

\* the state of a card at its first render
Mounted(item) ==
    [apod |-> item, imageLoading |-> TRUE, imageError |-> FALSE,
     imageSrc |-> item.url]

handleImageLoad(c) == [c EXCEPT !.imageLoading = FALSE]

\* every failure switches to the fallback and shows loading again
handleImageErrorRetrying(c) ==
    [c EXCEPT !.imageSrc = IMAGES_FALLBACK, !.imageError = FALSE,
              !.imageLoading = TRUE]

handleImageError(c) ==
    IF c.imageSrc # IMAGES_FALLBACK
    THEN [c EXCEPT !.imageSrc = IMAGES_FALLBACK, !.imageError = FALSE,
                   !.imageLoading = TRUE]
    ELSE [c EXCEPT !.imageLoading = FALSE, !.imageError = TRUE]

\* the effect on [imageUrl, isVideo, apod.date]
resetEffect(c) ==
    IF ~isVideo(c.apod)
    THEN [c EXCEPT !.imageLoading = TRUE, !.imageError = FALSE,
                   !.imageSrc = IF Trim(c.apod.url) # "" THEN c.apod.url
                                ELSE IMAGES_FALLBACK]
    ELSE c

NoImage == [key |-> "", src |-> "", status |-> "none"]

\* the image element after a render: none for a video or a blank src, the
\* old element while key and src stay, else a new load
Rendered(c, old) ==
    IF isVideo(c.apod) \/ Trim(c.imageSrc) = "" THEN NoImage
    ELSE IF old.key = c.apod.date /\ old.src = c.imageSrc THEN old
    ELSE [key |-> c.apod.date, src |-> c.imageSrc, status |-> "loading"]

\* onLoad of the image
ImageLoaded ==
    /\ img.status = "loading"
    /\ card' = handleImageLoad(card)
    /\ img' = [img EXCEPT !.status = "loaded"]
    /\ UNCHANGED <<failures, notUiVars>>

\* onError of the image
ImageFailed ==
    /\ img.status = "loading"
    /\ card' = handleImageError(card)
    /\ img' = Rendered(card', [img EXCEPT !.status = "failed"])
    /\ failures' = failures + 1
    /\ UNCHANGED notUiVars

\* the parent passes another APOD: a render, then the effect
ChangeAPOD(item) ==
    /\ item # card.apod
    /\ card' = resetEffect([card EXCEPT !.apod = item])
    /\ img' = Rendered(card', Rendered([card EXCEPT !.apod = item], img))
    /\ failures' = 0
    /\ UNCHANGED notUiVars

CardInit ==
    /\ \E item \in Apods :
          /\ card = resetEffect(Mounted(item))
          /\ img = Rendered(card, Rendered(Mounted(item), NoImage))
    /\ failures = 0
    /\ EarlierIdle /\ CacheIdle /\ PageIdle /\ WireIdle /\ DebounceIdle /\ EnvIdle /\ HooksIdle /\ RetryIdle

CardNext ==
    \/ ImageLoaded
    \/ ImageFailed
    \/ \E item \in Apods : ChangeAPOD(item)

SpecCard == CardInit /\ [][CardNext]_vars

-----------------------------------------------------------------------------
(* The pages and what they show of a fetch.  screen holds the name of the  *)
(* page and its mode, how its last request really went (request), and the  *)
(* state of its query (status, fetching, data; NASAPage, CharacterSearch)  *)
(* or of its component (loading, data; the Giphy pages).                   *)

notPageVars == <<nasaVars, keyVars, cursorVars, fetchVars, cacheVars, uiVars, wireVars, debounceVars, envVars, hookVars, retryVars>>

MaxItems == 3    \* a fetch resolves to one of the items 1..MaxItems

QueryPages == {"NASAPage", "CharacterSearch"}
GiphyPages == {"GiphyPage", "GiphyTranslatePage"}

\* what a page renders of its state
View(loading, error, retry, content) ==
    [loading |-> loading, error |-> error, retry |-> retry,
     content |-> content]

\* NASAPage: the spinner while isLoading, ErrorMessage with onRetry while
\* isError, the APODs while there is data
nasaPageView(p) ==
    LET isLoading == p.status = "pending" /\ p.fetching
    IN  View(isLoading, p.status = "error", p.status = "error",
             p.data # 0 /\ ~isLoading)

\* CharacterSearch: the error view with its Retry button when status is
\* 'error', else the skeletons or the results
characterSearchView(p) ==
    IF p.status = "error" THEN View(FALSE, TRUE, TRUE, FALSE)
    ELSE View(p.status = "pending" \/ p.fetching, FALSE, FALSE, p.data # 0)

\* GiphyPage and GiphyTranslatePage: "Loading..." while loading, the Gif
\* when there is one and nothing is loading; nothing else is rendered
giphyPageView(p) == View(p.loading, FALSE, FALSE, p.data # 0 /\ ~p.loading)

Shows(p) ==
    CASE p.name = "NASAPage" -> nasaPageView(p)
      [] p.name = "CharacterSearch" -> characterSearchView(p)
      [] p.name \in GiphyPages -> giphyPageView(p)

\* a query starts to fetch: on mount, by refetch() (Get Random, Try Again)
\* or after Retry reloaded the page
PageQueryFetch ==
    /\ screen.name \in QueryPages
    /\ ~screen.fetching
    /\ screen' = [screen EXCEPT !.fetching = TRUE, !.request = "pending"]
    /\ UNCHANGED notPageVars

\* the query's fetch settled: the query client keeps the data and sets
\* status 'success', or 'error' once its retries are used up
PageQuerySettled ==
    /\ screen.name \in QueryPages
    /\ screen.fetching
    /\ \/ \E item \in 1..MaxItems :
             screen' = [screen EXCEPT !.fetching = FALSE, !.status = "success",
                                  !.data = item, !.request = "succeeded"]
       \/ screen' = [screen EXCEPT !.fetching = FALSE, !.status = "error",
                               !.request = "failed"]
    /\ UNCHANGED notPageVars

\* fetchGif / handleRandomGif / handleTranslate up to their await
GiphyRequest ==
    /\ screen.name \in GiphyPages
    /\ screen.request # "pending"
    /\ screen' = [screen EXCEPT !.loading = TRUE, !.request = "pending"]
    /\ UNCHANGED notPageVars

\* after the await: setGif and setLoading(false) when the request resolved;
\* when it rejected GiphyPage runs nothing more and GiphyTranslatePage only
\* its finally block
GiphySettled ==
    /\ screen.name \in GiphyPages
    /\ screen.request = "pending"
    /\ \/ \E item \in 1..MaxItems :
             screen' = [screen EXCEPT !.data = item, !.loading = FALSE,
                                  !.request = "succeeded"]
       \/ screen' = [screen EXCEPT
                      !.loading = IF screen.name = "GiphyPage" THEN @ ELSE FALSE,
                      !.request = "failed"]
    /\ UNCHANGED notPageVars

\* the user picks another view mode / switches between GIFs and stickers
SwitchMode(mode) ==
    /\ screen.request # "pending"
    /\ mode # screen.mode
    /\ \/ /\ screen.name = "NASAPage" /\ mode \in ViewModes
          /\ screen' = [screen EXCEPT !.mode = mode, !.status = "pending",
                                  !.data = 0, !.request = "idle"]
       \/ /\ screen.name \in GiphyPages /\ mode \in {"gifs", "stickers"}
          /\ screen' = [screen EXCEPT !.mode = mode]
    /\ UNCHANGED notPageVars

PagesInit ==
    /\ screen \in
          {[name |-> "NASAPage", mode |-> m, request |-> "idle",
            status |-> "pending", fetching |-> FALSE, data |-> 0,
            loading |-> FALSE] : m \in ViewModes}
          \cup {[name |-> "CharacterSearch", mode |-> "", request |-> "idle",
                 status |-> "pending", fetching |-> FALSE, data |-> 0,
                 loading |-> FALSE]}
          \cup {[name |-> n, mode |-> "gifs", request |-> "idle",
                 status |-> "", fetching |-> FALSE, data |-> 0,
                 loading |-> FALSE] : n \in GiphyPages}
    /\ EarlierIdle /\ CacheIdle /\ UiIdle /\ WireIdle /\ DebounceIdle /\ EnvIdle /\ HooksIdle /\ RetryIdle

PagesNext ==
    \/ PageQueryFetch
    \/ PageQuerySettled
    \/ GiphyRequest
    \/ GiphySettled
    \/ \E mode \in ViewModes \cup {"gifs", "stickers"} : SwitchMode(mode)

SpecPages == PagesInit /\ [][PagesNext]_vars

-----------------------------------------------------------------------------
(* The Giphy client, and the timeout each client function gives fetch.     *)

\* an exception that is no typed error of a client: it has no status
RawError(name) ==
    [kind |-> "rejected", name |-> name, status |-> 0, detail |-> "",
     data |-> JUndefined]

\* the body shared by translateToGif and fetchRandomGif: no signal, no
\* try/catch, no look at response.ok; data.data of whatever the body holds
giphyData(reply) ==
    IF reply.kind # "response" THEN RawError("TypeError")
    ELSE IF ~json(reply.body).ok THEN RawError("SyntaxError")
    ELSE IF json(reply.body).val.k = "null" THEN RawError("TypeError")
    ELSE Resolved(Member(json(reply.body).val, "data"))

translateToGif(reply) == giphyData(reply)

fetchRandomGif(reply) == giphyData(reply)

\* the ms of the AbortSignal.timeout a client function passes to fetch:
\* 0 when it passes none or cannot read it
signalTimeout(fn) ==
    CASE fn = "fetchAPOD" ->
            IF HasTimeout("nasa") THEN CONFIG.nasa.timeout ELSE 0
      [] fn \in {"fetchRickAndMortyCharacters", "fetchRickAndMortyEpisodes",
                 "fetchRickAndMortyLocations"} ->
            IF HasTimeout("api") THEN CONFIG.api.timeout ELSE 0
      [] fn \in {"translateToGif", "fetchRandomGif"} -> 0

GiphyReplies ==
    Replies \cup {Reply(200, <<P("{"), S("data"), P(":"), S("gif"), P("}")>>)}

TranslateToGif ==
    /\ \E reply \in GiphyReplies \ {TimedOut} :
          /\ upstream' = reply
          /\ outcome' = translateToGif(reply)
    /\ call' = "translateToGif"
    /\ UNCHANGED notFetchVars

FetchRandomGif ==
    /\ \E reply \in GiphyReplies \ {TimedOut} :
          /\ upstream' = reply
          /\ outcome' = fetchRandomGif(reply)
    /\ call' = "fetchRandomGif"
    /\ UNCHANGED notFetchVars

ClientsNext == FetchNext \/ TranslateToGif \/ FetchRandomGif

SpecClients == FetchInit /\ [][ClientsNext]_vars

-----------------------------------------------------------------------------
(* A call of a request wrapper over time: the part before `await fetch`,   *)
(* the wait for the upstream, and the abort signal's timer.                *)

\* the variables a call in flight leaves alone
notWireVars == <<nasaVars, keyVars, cursorVars, cacheVars, uiVars, pageVars, debounceVars, envVars, hookVars, retryVars>>

\* the milliseconds of one step of the clock
TickMs == 5000

\* the longest the upstream takes to answer, in steps of the clock
MaxLatency == 3

Wrappers ==
    {"fetchAPOD", "fetchRickAndMortyCharacters", "fetchRickAndMortyEpisodes",
     "fetchRickAndMortyLocations"}

\* the promise has not settled
Pending ==
    [kind |-> "pending", name |-> "", status |-> 0, detail |-> "",
     data |-> JUndefined]

\* what the function called gives the caller for a reply
settled(fn, reply) ==
    CASE fn = "fetchAPOD" -> fetchAPOD(reply)
      [] fn = "fetchRickAndMortyCharacters" -> fetchRickAndMortyCharacters(reply)
      [] fn = "fetchRickAndMortyEpisodes" -> fetchRickAndMortyEpisodes(reply)
      [] fn = "fetchRickAndMortyLocations" -> fetchRickAndMortyLocations(reply)

InFlight == DOMAIN wire # {} /\ wire.sent /\ outcome = Pending

\* AbortSignal.timeout(ms) has not aborted the request yet
BeforeTimeout == wire.waited * TickMs < signalTimeout(call)

\* how the upstream will answer a request and how long it will take
Upstream(answer, latency, sent) ==
    [answer |-> answer, latency |-> latency, waited |-> 0, sent |-> sent]

\* fetchAPOD is called and runs up to `await fetch(url, {..., signal})`
StartFetchAPOD ==
    /\ ~InFlight
    /\ \E answer \in Replies \ {TimedOut}, latency \in 0..MaxLatency :
          wire' = Upstream(answer, latency, HasTimeout("nasa"))
    /\ call' = "fetchAPOD"
    /\ upstream' = <<>>
    /\ outcome' = IF HasTimeout("nasa") THEN Pending
                  ELSE settled("fetchAPOD", ConnectionFailed)
    /\ UNCHANGED notWireVars

\* a fetchRickAndMorty* function is called and runs up to `await fetch`;
\* when the signal cannot be built the exception lands in the catch block
\* and nothing is sent
StartFetchRickAndMorty ==
    /\ ~InFlight
    /\ \E answer \in Replies \ {TimedOut}, latency \in 0..MaxLatency :
          wire' = Upstream(answer, latency, HasTimeout("api"))
    /\ \E fn \in Wrappers \ {"fetchAPOD"} :
          /\ call' = fn
          /\ outcome' = IF HasTimeout("api") THEN Pending
                        ELSE settled(fn, ConnectionFailed)
    /\ upstream' = <<>>
    /\ UNCHANGED notWireVars

\* time passes while the request waits
Tick ==
    /\ InFlight
    /\ BeforeTimeout
    /\ wire.waited < wire.latency
    /\ wire' = [wire EXCEPT !.waited = @ + 1]
    /\ UNCHANGED <<fetchVars, notWireVars>>

\* fetch resolves or rejects and the wrapper runs to its end
ResponseArrives ==
    /\ InFlight
    /\ BeforeTimeout
    /\ wire.waited = wire.latency
    /\ upstream' = wire.answer
    /\ outcome' = settled(call, wire.answer)
    /\ UNCHANGED <<call, wire, notWireVars>>

\* the signal aborts the request: fetch rejects with a TimeoutError
TimeoutFires ==
    /\ InFlight
    /\ ~BeforeTimeout
    /\ upstream' = TimedOut
    /\ outcome' = settled(call, TimedOut)
    /\ UNCHANGED <<call, wire, notWireVars>>

CallsInit == FetchInit

CallsNext ==
    \/ StartFetchAPOD
    \/ StartFetchRickAndMorty
    \/ Tick
    \/ ResponseArrives
    \/ TimeoutFires

\* the clock runs, the runtime delivers a response that has arrived and fires
\* the timer of AbortSignal.timeout
SpecCalls ==
    /\ CallsInit
    /\ [][CallsNext]_vars
    /\ WF_vars(Tick)
    /\ WF_vars(ResponseArrives)
    /\ WF_vars(TimeoutFires)

-----------------------------------------------------------------------------
(* useDebouncedValue as CharacterSearch uses it. A change of filters.name  *)
(* comes from an input or click event, so the render and the effects it    *)
(* causes run before anything else does.                                   *)

\* the variables the debounce hook leaves alone
notDebounceVars == <<nasaVars, keyVars, cursorVars, fetchVars, cacheVars,
                     uiVars, pageVars, wireVars, envVars, hookVars, retryVars>>

\* the milliseconds of one step of the window's clock
StepMs == 100

\* useDebouncedValue(filters.name, 400)
delay == 400

\* the texts typed into the name field, '' for an emptied field
Typed == {"", "r", "ri"}

\* filters.name: a string or null, in the source's notation
EmptyName == "''"
NullName == "null"
Quoted(text) == "'" \o text \o "'"

\* window.setTimeout(() => setDebounced(value), delay): the timers with the
\* new one, and the id returned
newId(ts) == CHOOSE n \in 1..(Cardinality(ts) + 1) : \A t \in ts : t.id # n

setTimeout(ts, val, ms) ==
    ts \cup {[id |-> newId(ts), value |-> val,
              remaining |-> (ms + StepMs - 1) \div StepMs]}

\* window.clearTimeout(id)
clearTimeout(ts, n) == {t \in ts : t.id # n}

\* a callback that leaves the state as it is
callbackKeeping(t, current) == current

\* the timer's callback: setDebounced(value) with the value of its render
callback(t, current) == t.value

\* an effect that sets its timer without a cleanup that clears the last one
cleanupKeeping(ts, n) == ts

\* the effect's cleanup: () => window.clearTimeout(id)
cleanup(ts, n) == clearTimeout(ts, n)

\* a render with a changed value: the cleanup of the last effect, then the
\* effect again
Rerendered(name) ==
    /\ filters' = [name |-> name]
    /\ timers' = setTimeout(cleanup(timers, id), name, delay)
    /\ id' = newId(cleanup(timers, id))
    /\ stable' = 0
    /\ UNCHANGED <<mounted, debounced>>

\* CharacterSearch mounts: useState(value), then the effect
Mount ==
    /\ ~mounted
    /\ mounted' = TRUE
    /\ filters' = [name |-> EmptyName]
    /\ debounced' = EmptyName
    /\ timers' = setTimeout(timers, EmptyName, delay)
    /\ id' = newId(timers)
    /\ stable' = 0
    /\ UNCHANGED notDebounceVars

\* handleFilterChange('name', e.target.value)
HandleFilterChange ==
    /\ mounted
    /\ \E text \in Typed :
          LET normalized == IF text = "" THEN NullName ELSE Quoted(text)
          IN  /\ normalized # filters.name
              /\ Rerendered(normalized)
    /\ UNCHANGED notDebounceVars

\* the Clear buttons: setFilters({name: '', ...})
ClearFilters ==
    /\ mounted
    /\ filters.name # EmptyName
    /\ Rerendered(EmptyName)
    /\ UNCHANGED notDebounceVars

\* one step of the clock
TimePasses ==
    /\ timers' = {[t EXCEPT !.remaining = IF @ > 0 THEN @ - 1 ELSE 0] :
                    t \in timers}
    /\ stable' = IF stable * StepMs < delay THEN stable + 1 ELSE stable
    /\ UNCHANGED <<mounted, filters, debounced, id, notDebounceVars>>

\* a timeout that is due runs its callback; the value in the dependency list
\* is the same, so no effect runs
TimeoutRuns ==
    /\ \E t \in timers :
          /\ t.remaining = 0
          /\ debounced' = callback(t, debounced)
          /\ timers' = timers \ {t}
    /\ UNCHANGED <<mounted, filters, id, stable, notDebounceVars>>

\* CharacterSearch unmounts: the cleanup of the last effect runs
Unmount ==
    /\ mounted
    /\ mounted' = FALSE
    /\ timers' = cleanup(timers, id)
    /\ id' = 0
    /\ UNCHANGED <<filters, debounced, stable, notDebounceVars>>

DebounceInit ==
    /\ mounted = FALSE
    /\ filters = [name |-> EmptyName]
    /\ debounced = EmptyName
    /\ timers = {}
    /\ id = 0
    /\ stable = 0
    /\ EarlierIdle /\ CacheIdle /\ UiIdle /\ PageIdle /\ WireIdle /\ EnvIdle /\ HooksIdle /\ RetryIdle

DebounceNext ==
    \/ Mount
    \/ HandleFilterChange
    \/ ClearFilters
    \/ TimePasses
    \/ TimeoutRuns
    \/ Unmount

SpecDebounce == DebounceInit /\ [][DebounceNext]_vars

\* the clock runs and the window runs a timeout that is due
SpecDebounceFair ==
    /\ SpecDebounce
    /\ WF_vars(TimePasses)
    /\ WF_vars(TimeoutRuns)

-----------------------------------------------------------------------------
(* tools/switch-env.js: one run of the script over the files .env and      *)
(* .env.example. Texts are sequences of characters.                        *)

\* the variables a run of the script leaves alone
notEnvVars == <<nasaVars, keyVars, cursorVars, fetchVars, cacheVars, uiVars, pageVars,
      wireVars, debounceVars, hookVars, retryVars>>

DB_MODE == <<"D", "B", "_", "M", "O", "D", "E">>
REDIS_MODE == <<"R", "E", "D", "I", "S", "_", "M", "O", "D", "E">>
local == <<"l", "o", "c", "a", "l">>
supabase == <<"s", "u", "p", "a", "b", "a", "s", "e">>
upstash == <<"u", "p", "s", "t", "a", "s", "h">>
unknown == <<"u", "n", "k", "n", "o", "w", "n">>
undefinedText == <<"u", "n", "d", "e", "f", "i", "n", "e", "d">>
fullLocal == <<"f", "u", "l", "l", "-", "l", "o", "c", "a", "l">>
fullCloud == <<"f", "u", "l", "l", "-", "c", "l", "o", "u", "d">>
hybridSupabase == <<"h", "y", "b", "r", "i", "d", "-", "s", "u", "p", "a", "b", "a", "s", "e">>
hybridUpstash == <<"h", "y", "b", "r", "i", "d", "-", "u", "p", "s", "t", "a", "s", "h">>

\* undefined, where a text may be missing
NoValue == <<"undefined">>

\* `${value}`
Text(val) == IF val = NoValue THEN undefinedText ELSE val

\* a string or undefined used as a condition
Given(val) == val # NoValue /\ val # <<>>

PRESETS ==
    <<[name |-> fullLocal, DB_MODE |-> local, REDIS_MODE |-> local],
      [name |-> fullCloud, DB_MODE |-> supabase, REDIS_MODE |-> upstash],
      [name |-> hybridSupabase, DB_MODE |-> supabase, REDIS_MODE |-> local],
      [name |-> hybridUpstash, DB_MODE |-> local, REDIS_MODE |-> upstash]>>

\* names every object literal inherits from Object.prototype
ObjectPrototype ==
    {<<"c", "o", "n", "s", "t", "r", "u", "c", "t", "o", "r">>,
     <<"t", "o", "S", "t", "r", "i", "n", "g">>,
     <<"v", "a", "l", "u", "e", "O", "f">>}

\* PRESETS[name]: an own entry, an inherited member (an object or function
\* without DB_MODE and REDIS_MODE), or undefined
presetNamed(name) ==
    IF \E i \in DOMAIN PRESETS : PRESETS[i].name = name
    THEN LET entry == PRESETS[CHOOSE i \in DOMAIN PRESETS :
                                  PRESETS[i].name = name]
         IN  [found |-> TRUE, DB_MODE |-> entry.DB_MODE,
              REDIS_MODE |-> entry.REDIS_MODE]
    ELSE IF name \in ObjectPrototype
    THEN [found |-> TRUE, DB_MODE |-> NoValue, REDIS_MODE |-> NoValue]
    ELSE [found |-> FALSE, DB_MODE |-> NoValue, REDIS_MODE |-> NoValue]

\* s.startsWith(prefix), from position i
StartsAt(s, i, prefix) ==
    /\ i + Len(prefix) - 1 <= Len(s)
    /\ SubSeq(s, i, i + Len(prefix) - 1) = prefix

\* parseArgs: options[key] = value for each --key=value, undefined for --key;
\* a later argument replaces an earlier one of the same key
RECURSIVE parseArgs(_)
parseArgs(args) ==
    IF args = <<>> THEN <<>>
    ELSE LET options == parseArgs(SubSeq(args, 1, Len(args) - 1))
             arg == args[Len(args)]
             pieces == Split(From(arg, 3), "=")
         IN  IF StartsAt(arg, 1, <<"-", "-">>)
             THEN [k \in DOMAIN options \cup {pieces[1]} |->
                     IF k = pieces[1]
                     THEN IF Len(pieces) >= 2 THEN pieces[2] ELSE NoValue
                     ELSE options[k]]
             ELSE options

\* options.name
Option(options, name) ==
    IF name \in DOMAIN options THEN options[name] ELSE NoValue

\* the positions where ^ matches under the m flag
LineStarts(s) == {1} \cup {i + 1 : i \in {j \in DOMAIN s : s[j] = "\n"}}

\* the position of the end of the line that holds position i, plus one
LineEnd(s, i) ==
    IF \E j \in i..Len(s) : s[j] = "\n"
    THEN CHOOSE j \in i..Len(s) :
            s[j] = "\n" /\ \A k \in i..(j - 1) : s[k] # "\n"
    ELSE Len(s) + 1

\* where new RegExp(`^${key}=.*$`, 'm') matches first, 0 for no match
FirstMatch(s, name) ==
    LET at == {i \in LineStarts(s) : StartsAt(s, i, name \o <<"=">>)}
    IN  IF at = {} THEN 0 ELSE CHOOSE i \in at : \A j \in at : i <= j

\* `${key}="${value}"`
Assignment(name, val) == name \o <<"=", "\"">> \o Text(val) \o <<"\"">>

\* a loop body that always appends the assignment
appendOne(envContent, name, val) ==
    envContent \o <<"\n">> \o Assignment(name, val)

\* the body of the loop of updateEnvFile: replace the first line of the key
\* or append one
updateOne(envContent, name, val) ==
    LET i == FirstMatch(envContent, name)
    IN  IF i # 0
        THEN SubSeq(envContent, 1, i - 1) \o Assignment(name, val)
                \o From(envContent, LineEnd(envContent, i))
        ELSE envContent \o <<"\n">> \o Assignment(name, val)

RECURSIVE updateAll(_, _)
updateAll(envContent, updates) ==
    IF updates = <<>> THEN envContent
    ELSE updateAll(updateOne(envContent, updates[1][1], updates[1][2]),
                   Tail(updates))

Missing == [exists |-> FALSE, content |-> <<>>]
File(content) == [exists |-> TRUE, content |-> content]

Ran(code, env, out) == [exitCode |-> code, envFile |-> env, stdout |-> out]

\* updateEnvFile(updates), given the two files and what was printed so far
updateEnvFile(updates, env, example, out) ==
    IF env.exists
    THEN Ran(0, File(updateAll(env.content, updates)), out)
    ELSE IF example.exists
    THEN Ran(0, File(updateAll(example.content, updates)),
             out \o <<<<"Created .env from .env.example", <<>>>>>>)
    ELSE Ran(1, env, out \o <<<<"No .env or .env.example file found", <<>>>>>>)

\* the characters [^"\\n] admits: any but the quote, the backslash and n
Admitted(c) == c \notin {"\"", "\\", "n"}

\* the longest run of admitted characters of s from position i
RECURSIVE Run(_, _)
Run(s, i) ==
    IF i <= Len(s) /\ Admitted(s[i]) THEN <<s[i]>> \o Run(s, i + 1) ELSE <<>>

\* envContent.match(/^KEY="?([^"\\n]+)"?/m)?.[1] || 'unknown'
modeOf(envContent, name) ==
    LET head == name \o <<"=">>
        quoted(i) == StartsAt(envContent, i + Len(head), <<"\"">>)
        first(i) == i + Len(head) + (IF quoted(i) THEN 1 ELSE 0)
        at == {i \in LineStarts(envContent) :
                 /\ StartsAt(envContent, i, head)
                 /\ Run(envContent, first(i)) # <<>>}
    IN  IF at = {} THEN unknown
        ELSE Run(envContent, first(CHOOSE i \in at : \A j \in at : i <= j))

\* showCurrentConfig()
showCurrentConfig(env, out) ==
    IF ~env.exists
    THEN out \o <<<<"No .env file found. Current configuration unknown.", <<>>>>>>
    ELSE LET dbMode == modeOf(env.content, DB_MODE)
             redisMode == modeOf(env.content, REDIS_MODE)
             matching == {i \in DOMAIN PRESETS :
                             /\ PRESETS[i].DB_MODE = dbMode
                             /\ PRESETS[i].REDIS_MODE = redisMode}
             shown == out \o <<<<"Current Configuration:", <<>>>>,
                               <<"Database:", dbMode>>,
                               <<"Redis:", redisMode>>>>
         IN  IF matching = {} THEN shown
             ELSE shown \o <<<<"Preset:",
                    PRESETS[CHOOSE i \in matching :
                                \A j \in matching : i <= j].name>>>>

\* main(), from the options parsed
main(options, env, example) ==
    LET help == Option(options, <<"h", "e", "l", "p">>)
        status == Option(options, <<"s", "t", "a", "t", "u", "s">>)
        presetName == Option(options, <<"p", "r", "e", "s", "e", "t">>)
        db == Option(options, <<"d", "b">>)
        redis == Option(options, <<"r", "e", "d", "i", "s">>)
        preset == presetNamed(presetName)
        updates ==
            (IF Given(db) THEN <<<<DB_MODE, db>>>> ELSE <<>>)
                \o (IF Given(redis) THEN <<<<REDIS_MODE, redis>>>> ELSE <<>>)
    IN  IF Given(help) THEN Ran(0, env, <<<<"Usage:", <<>>>>>>)
        ELSE IF Given(status) THEN Ran(0, env, showCurrentConfig(env, <<>>))
        ELSE IF Given(presetName)
        THEN IF ~preset.found
             THEN Ran(1, env, <<<<"Unknown preset:", presetName>>>>)
             ELSE LET updated ==
                         updateEnvFile(<<<<DB_MODE, preset.DB_MODE>>,
                                         <<REDIS_MODE, preset.REDIS_MODE>>>>,
                                       env, example, <<>>)
                  IN  IF updated.exitCode # 0 THEN updated
                      ELSE Ran(0, updated.envFile,
                               updated.stdout
                                  \o <<<<"Switched to preset:", presetName>>>>)
        ELSE IF Given(db) /\ db \notin {local, supabase}
        THEN Ran(1, env, <<<<"Invalid db mode. Use: local | supabase", <<>>>>>>)
        ELSE IF Given(redis) /\ redis \notin {local, upstash}
        THEN Ran(1, env, <<<<"Invalid redis mode. Use: local | upstash", <<>>>>>>)
        ELSE IF updates = <<>>
        THEN Ran(0, env,
                 showCurrentConfig(env, <<<<"No changes specified.", <<>>>>>>))
        ELSE LET updated == updateEnvFile(updates, env, example, <<>>)
             IN  IF updated.exitCode # 0 THEN updated
                 ELSE Ran(0, updated.envFile,
                          updated.stdout \o <<<<"Environment updated:", <<>>>>>>)

Flag(name) == <<"-", "-">> \o name
Arg(name, val) == <<"-", "-">> \o name \o <<"=">> \o val

EnvPlain ==
    <<"P", "O", "R", "T", "=", "1", "\n", "D", "B", "_", "M", "O", "D",
      "E", "=", "l", "o", "c", "a", "l", "\n", "R", "E", "D", "I", "S",
      "_", "M", "O", "D", "E", "=", "l", "o", "c", "a", "l", "\n">>

EnvQuoted ==
    <<"D", "B", "_", "M", "O", "D", "E", "=", "\"", "s", "u", "p", "a",
      "b", "a", "s", "e", "\"", "\n", "#", " ", "R", "E", "D", "I", "S",
      "_", "M", "O", "D", "E", "=", "l", "o", "c", "a", "l", "\n", "P",
      "O", "R", "T", "=", "1">>

EnvRepeated ==
    <<"R", "E", "D", "I", "S", "_", "M", "O", "D", "E", "=", "u", "p", "s",
      "t", "a", "s", "h", "\n", "D", "B", "_", "M", "O", "D", "E", "_",
      "O", "L", "D", "=", "x", "\n", "D", "B", "_", "M", "O", "D", "E",
      "=", "n", "e", "o", "n", "\n", "D", "B", "_", "M", "O", "D", "E",
      "=", "l", "o", "c", "a", "l">>

EnvExample ==
    <<"D", "B", "_", "M", "O", "D", "E", "=", "l", "o", "c", "a", "l",
      "\n", "A", "P", "I", "_", "K", "E", "Y", "=", "\n">>

EnvFiles == {File(EnvPlain), File(EnvQuoted), File(EnvRepeated), Missing}

ExampleFiles == {File(EnvExample), Missing}

PresetNames ==
    {fullLocal, fullCloud, hybridSupabase, hybridUpstash,
     <<"s", "t", "a", "g", "i", "n", "g">>,
     <<"c", "o", "n", "s", "t", "r", "u", "c", "t", "o", "r">>}

DbModes == {local, supabase, <<>>, <<"m", "y", "s", "q", "l">>}

RedisModes == {local, upstash, <<"m", "e", "m", "c", "a", "c", "h", "e", "d">>}

OneOf(name, vals) == {<<>>} \cup {<<Arg(name, v)>> : v \in vals}

\* the command lines tried: --status and --help, a preset alone or with a
\* --db, and --db with --redis
Invocations ==
    {<<Flag(<<"s", "t", "a", "t", "u", "s">>)>>, <<Arg(<<"s", "t", "a", "t", "u", "s">>, <<"1">>)>>,
     <<Arg(<<"h", "e", "l", "p">>, <<"1">>)>>}
    \cup {<<Arg(<<"p", "r", "e", "s", "e", "t">>, p)>> \o d :
            p \in PresetNames, d \in OneOf(<<"d", "b">>, {<<"m", "y", "s", "q", "l">>})}
    \cup {d \o r : d \in OneOf(<<"d", "b">>, DbModes),
                   r \in OneOf(<<"r", "e", "d", "i", "s">>, RedisModes)}

\* node tools/switch-env.js <args>
SwitchEnv ==
    \E args \in Invocations :
        LET ran == main(parseArgs(args), envFile, exampleFile)
        IN  /\ argv' = args
            /\ envFile' = ran.envFile
            /\ exitCode' = ran.exitCode
            /\ stdout' = ran.stdout
            /\ UNCHANGED <<exampleFile, notEnvVars>>

EnvInit ==
    /\ envFile \in EnvFiles
    /\ exampleFile \in ExampleFiles
    /\ argv = <<>>
    /\ exitCode = 0
    /\ stdout = <<>>
    /\ EarlierIdle /\ CacheIdle /\ UiIdle /\ PageIdle /\ WireIdle /\ DebounceIdle /\ HooksIdle /\ RetryIdle

EnvNext == SwitchEnv

SpecEnv == EnvInit /\ [][EnvNext]_vars

-----------------------------------------------------------------------------
(* The enabled option of the three character hooks, for one request handed *)
(* to all of them.                                                         *)

\* the variables a render of the character hooks leaves alone
notHookVars == <<nasaVars, keyVars, cursorVars, fetchVars, cacheVars, uiVars,
                 pageVars, wireVars, debounceVars, envVars, retryVars>>

\* params.ids?.length ?? 0, for ids an array, null, undefined or left out
idsLength(ps) ==
    LET ids == Get(ps, "ids")
    IN  IF ids.k = "arr" THEN Len(ids.a) ELSE 0

\* an enabled option that does not look at ids
enabledAlways(ps) == TRUE

\* useRickAndMortyCharacters: enabled: (params.ids?.length ?? 0) == 0
charactersEnabled(ps) == idsLength(ps) = 0

\* useRickAndMortyCharactersByIds: enabled: (params.ids?.length ?? 0) > 0
charactersByIdsEnabled(ps) == idsLength(ps) > 0

\* useRickAndMortyCharactersInfinite: enabled: (params.ids?.length ?? 0) === 0
charactersInfiniteEnabled(ps) == idsLength(ps) = 0

\* character requests with ids null or undefined as well
HookRequests ==
    CharacterRequests
        \cup {r \o <<[p |-> "ids", val |-> val]>> :
                r \in {c \in CharacterRequests : Get(c, "ids") = Undefined},
                val \in {Null, Undefined}}

\* a component renders the hooks with its request
RenderHooks ==
    /\ DOMAIN hookEnabled = {}
    /\ hookEnabled' = [characters |-> charactersEnabled(hookParams),
                       charactersByIds |-> charactersByIdsEnabled(hookParams),
                       charactersInfinite |->
                           charactersInfiniteEnabled(hookParams)]
    /\ UNCHANGED <<hookParams, notHookVars>>

HooksInit ==
    /\ hookParams \in HookRequests
    /\ hookEnabled = <<>>
    /\ EarlierIdle /\ CacheIdle /\ UiIdle /\ PageIdle /\ WireIdle /\ RetryIdle
    /\ DebounceIdle /\ EnvIdle

HooksNext == RenderHooks

SpecHooks == HooksInit /\ [][HooksNext]_vars

-----------------------------------------------------------------------------
(* The query client of QueryProvider: how often it runs a failing query or *)
(* mutation function, and how long it waits between the runs.              *)

\* the variables the retryers leave alone
notRetryVars == <<nasaVars, keyVars, cursorVars, fetchVars, cacheVars, uiVars,
                  pageVars, wireVars, debounceVars, envVars, hookVars>>

\* new QueryClient({ defaultOptions }): the retry options
defaultOptions == [queries |-> [retry |-> 3], mutations |-> [retry |-> 1]]

\* the largest attemptIndex retryDelay is asked for
MaxAttemptIndex == 6

\* a delay that doubles without a cap
retryDelayUncapped(attemptIndex) == 1000 * 2 ^ attemptIndex

\* retryDelay: attemptIndex => Math.min(1000 * 2 ** attemptIndex, 30000)
retryDelay(attemptIndex) ==
    IF 1000 * 2 ^ attemptIndex <= 30000 THEN 1000 * 2 ^ attemptIndex ELSE 30000

\* the queries and the mutation that run under the provider
Running == [apod |-> "queries", characters |-> "queries",
            prefetchAPOD |-> "mutations"]

Retryer(failureCount, attempts, status, waits) ==
    [failureCount |-> failureCount, attempts |-> attempts, status |-> status,
     waits |-> waits]

\* the function is run for the first time
Start(job) ==
    /\ retryers[job].status \in {"idle", "success", "error"}
    /\ retryers' = [retryers EXCEPT ![job] = Retryer(0, 1, "running", <<>>)]
    /\ UNCHANGED <<delayAsked, notRetryVars>>

\* the function resolved
Succeeds(job) ==
    /\ retryers[job].status = "running"
    /\ retryers' = [retryers EXCEPT ![job].status = "success"]
    /\ UNCHANGED <<delayAsked, notRetryVars>>

\* the function rejected: the error is surfaced unless failureCount < retry,
\* and else the retryer counts the failure and sleeps for the retry delay
Fails(job) ==
    /\ retryers[job].status = "running"
    /\ IF retryers[job].failureCount < defaultOptions[Running[job]].retry
       THEN /\ retryers' = [retryers EXCEPT ![job] =
                   Retryer(@.failureCount + 1, @.attempts, "waiting",
                           Append(@.waits, retryDelay(@.failureCount)))]
            /\ delayAsked' = [attemptIndex |-> retryers[job].failureCount,
                              ms |-> retryDelay(retryers[job].failureCount)]
       ELSE /\ retryers' = [retryers EXCEPT ![job].status = "error"]
            /\ UNCHANGED delayAsked
    /\ UNCHANGED notRetryVars

\* the delay is over: the function is run again
Retry(job) ==
    /\ retryers[job].status = "waiting"
    /\ retryers' = [retryers EXCEPT ![job].status = "running",
                                    ![job].attempts = @ + 1]
    /\ UNCHANGED <<delayAsked, notRetryVars>>

\* retryDelay called with an attemptIndex of its own
RetryDelay ==
    /\ \E attemptIndex \in 0..MaxAttemptIndex :
          delayAsked' = [attemptIndex |-> attemptIndex,
                         ms |-> retryDelay(attemptIndex)]
    /\ UNCHANGED <<retryers, notRetryVars>>

RetryInit ==
    /\ retryers = [job \in DOMAIN Running |-> Retryer(0, 0, "idle", <<>>)]
    /\ delayAsked = [attemptIndex |-> 0, ms |-> retryDelay(0)]
    /\ EarlierIdle /\ CacheIdle /\ UiIdle /\ PageIdle /\ WireIdle
    /\ DebounceIdle /\ EnvIdle /\ HooksIdle

RetryNext ==
    \/ \E job \in DOMAIN Running : Start(job)
    \/ \E job \in DOMAIN Running : Succeeds(job)
    \/ \E job \in DOMAIN Running : Fails(job)
    \/ \E job \in DOMAIN Running : Retry(job)
    \/ RetryDelay

SpecRetry == RetryInit /\ [][RetryNext]_vars

-----------------------------------------------------------------------------
(* Claims about the NASA store and the prefetch policy.                    *)

\* the calendar day before / after a date
DayBefore(date) == CivilFromDays(DaysFromCivil(date) - 1)
DayAfter(date) == CivilFromDays(DaysFromCivil(date) + 1)

\* C8: for every current date prefetchAdjacent attempts the previous day, and
\* attempts the next day if and only if the next day does not exceed today.
C8_PrefetchPrevAlwaysNextUpToToday ==
    prefetchLog # NoPrefetch =>
        /\ DayBefore(prefetchLog.currentDate) \in prefetchLog.attempted
        /\ DayAfter(prefetchLog.currentDate) \in prefetchLog.attempted
              <=> DateLE(DayAfter(prefetchLog.currentDate), prefetchLog.todayStr)

\* C9: goToPreviousDay at the first valid date and goToNextDay at today leave
\* selectedDate unchanged, and canGoPrevious / canGoNext are false there.
C9_NoPageBeyondTheBounds ==
    [][ /\ (isFirstAPOD /\ goToPreviousDay) =>
              (preferences'.selectedDate = preferences.selectedDate /\ ~canGoPrevious)
        /\ (isToday /\ goToNextDay) =>
              (preferences'.selectedDate = preferences.selectedDate /\ ~canGoNext)
      ]_vars

\* C10: the preference and navigation actions leave favorites unchanged, and
\* the favorite actions leave preferences unchanged.
C10_FavoritesFrame ==
    [][ /\ ( \/ \E mode \in ViewModes : setViewMode(mode)
             \/ \E count \in RandomCounts : setRandomCount(count)
             \/ \E date \in PickDates : setSelectedDate(date)
             \/ goToPreviousDay
             \/ goToNextDay
             \/ goToToday ) => favorites' = favorites
        /\ ( \E date \in FavDates :
                \/ addToFavorites(date)
                \/ removeFromFavorites(date)
                \/ toggleFavorite(date) ) => preferences' = preferences
      ]_vars

\* a state where favorites were kept through preference and navigation changes
C10_Witness ==
    /\ Len(favorites) = 2
    /\ preferences.viewMode = "random"
    /\ preferences.randomCount = 4
    /\ preferences.selectedDate = FIRST_APOD_DATE

-----------------------------------------------------------------------------
(* Claims about the query keys.                                            *)

\* the same property/value pairs, whatever the insertion order
SameProperties(a, b) == {a[i] : i \in DOMAIN a} = {b[i] : i \in DOMAIN b}

\* b holds the elements of a, each as often
IsPermutation(a, b) ==
    /\ Len(a) = Len(b)
    /\ \A x \in {a[i] : i \in DOMAIN a} \cup {b[i] : i \in DOMAIN b} :
          Cardinality({i \in DOMAIN a : a[i] = x})
            = Cardinality({i \in DOMAIN b : b[i] = x})

\* C1: two parameter objects with the same property/value pairs, built in a
\* different insertion order, give keys that identify the same cache entry.
C1_KeyIgnoresInsertionOrder ==
    (queryKey # <<>> /\ SameProperties(given[1], given[2]))
        => hashKey(queryKey[1]) = hashKey(queryKey[2])

\* two keys built from objects that differ in insertion order only
C1_Witness ==
    /\ queryKey # <<>>
    /\ hook[1] = "characters"
    /\ Len(given[1]) = 2
    /\ given[1] # given[2]
    /\ SameProperties(given[1], given[2])
    /\ hashKey(queryKey[1]) = hashKey(queryKey[2])

\* C2: charactersByIds returns the same key for every permutation of a list
\* of ids.
C2_ByIdsKeyIgnoresOrder ==
    (queryKey # <<>> /\ IsPermutation(Get(given[1], "ids").a, Get(given[2], "ids").a))
        => /\ queryKey[1][4] = queryKey[2][4]
           /\ hashKey(queryKey[1]) = hashKey(queryKey[2])

\* the keys of [3,1,2] and [1,2,3]
C2_Witness ==
    /\ queryKey # <<>>
    /\ Get(given[1], "ids").a = <<3, 1, 2>>
    /\ Get(given[2], "ids").a = <<1, 2, 3>>
    /\ queryKey[1][4].s = "1,2,3"
    /\ queryKey[2][4].s = "1,2,3"

\* C3: two character requests that send different parameters never get the
\* same key from the key builder used for them.
C3_DistinctRequestsDistinctKeys ==
    (queryKey # <<>> /\ characterUrl(params[1]) # characterUrl(params[2]))
        => hashKey(queryKey[1]) # hashKey(queryKey[2])

-----------------------------------------------------------------------------
(* Claims about the page cursors.                                          *)

Called(d) == pager # "" /\ pageParam[d] # NotCalled

\* C4: for info.next (info.prev) a URL carrying page=N the callback returns
\* the integer N, and undefined when the field is absent or null.
C4_PageNumberOfTheCursor ==
    \A d \in {"next", "prev"} :
        Called(d) =>
            /\ lastPage[d] \in {AbsentField, NullField}
                  => pageParam[d] = UndefinedPage
            /\ \A n \in 1..MaxPageNo :
                  lastPage[d] \in PageCursors(n) => pageParam[d] = Number(n)

\* next = ".../?page=3" gave 3 and a null prev gave undefined
C4_Witness ==
    /\ pager = "episodesInfinite"
    /\ lastPage.next = StringField(Origin \o Path \o <<"?", "p", "a", "g", "e", "=", "3">>)
    /\ lastPage.prev = NullField
    /\ pageParam = [next |-> Number(3), prev |-> UndefinedPage]

\* C5: for a cursor that is no valid absolute URL, has no page parameter or
\* has a page parameter that is not a number, the callback returns
\* undefined and raises nothing.
C5_MalformedCursorIsNoFurtherPage ==
    \A d \in {"next", "prev"} :
        (Called(d)
         /\ lastPage[d] \in InvalidURLs \cup NoPageURLs \cup NonNumericPageURLs)
            => pageParam[d] = UndefinedPage

-----------------------------------------------------------------------------
(* Claims about the request wrappers.                                      *)

\* what the function called gives the caller for a reply
settle(fn, reply) ==
    CASE fn = "fetchAPOD" -> fetchAPOD(reply)
      [] fn = "fetchRickAndMortyCharacters" -> fetchRickAndMortyCharacters(reply)
      [] fn = "fetchRickAndMortyEpisodes" -> fetchRickAndMortyEpisodes(reply)
      [] fn = "fetchRickAndMortyLocations" -> fetchRickAndMortyLocations(reply)

\* success: a 2xx reply with a JSON body; API error: a reply with another
\* status; network error: no reply
OutcomeClass(reply) ==
    IF reply.kind # "response" THEN "network error"
    ELSE IF ~Ok(reply) THEN "API error"
    ELSE IF json(reply.body).ok THEN "success"
    ELSE "unreadable"

\* C6: what the caller gets for a success, an API error and a network error
\* differs pairwise: no reply of another class gives the caller what this
\* reply gave.
C6_OutcomesDistinguishable ==
    call # "" =>
        \A other \in Replies :
            (/\ OutcomeClass(upstream) # "unreadable"
             /\ OutcomeClass(other) # "unreadable"
             /\ OutcomeClass(other) # OutcomeClass(upstream))
                => settle(call, other) # outcome

GenericMessage(fn) ==
    CASE fn = "fetchAPOD" -> "Failed to fetch NASA APOD data"
      [] fn = "fetchRickAndMortyCharacters" -> "Failed to fetch Rick and Morty characters"
      [] fn = "fetchRickAndMortyEpisodes" -> "Failed to fetch Rick and Morty episodes"
      [] fn = "fetchRickAndMortyLocations" -> "Failed to fetch Rick and Morty locations"

\* the message of a structured error body, "" when the body has none
BodyMessage(body) ==
    IF json(body).ok /\ json(body).val.k = "object"
       /\ Member(json(body).val, "detail").k = "string"
    THEN Member(json(body).val, "detail").s
    ELSE ""

\* C7: a reply with a non-success status S is raised as the typed error with
\* status S, carrying the message of the body when it has one and the
\* generic message otherwise.
C7_TypedErrorCarriesStatusAndMessage ==
    (call # "" /\ upstream.kind = "response" /\ ~Ok(upstream))
        => /\ outcome.kind = "rejected"
           /\ outcome.status = upstream.status
           /\ outcome.detail = IF BodyMessage(upstream.body) # ""
                               THEN BodyMessage(upstream.body)
                               ELSE GenericMessage(call)

-----------------------------------------------------------------------------
(* Further claims about the NASA store.                                    *)

\* C11: starting from the empty list, no date occurs more than once in
\* favorites after any sequence of addToFavorites, removeFromFavorites and
\* toggleFavorite calls.
C11_FavoritesHoldNoDateTwice ==
    \A i, j \in DOMAIN favorites : favorites[i] = favorites[j] => i = j

\* every date is a favorite, and the one added first was added again last
C11_Witness ==
    /\ Len(favorites) = Cardinality(FavDates)
    /\ Len(favorites) >= 2
    /\ DateLE(favorites[Len(favorites)], favorites[1])

\* the dates of a list
Dates(favs) == {favs[i] : i \in DOMAIN favs}

\* C22: a toggleFavorite(d) step negates isFavorite(d) and leaves the
\* membership of every other date as it was, and the list a second
\* toggleFavorite(d) would set holds the dates the list held before the
\* first.
C22_ToggleFlipsOneDate ==
    [][\A d \in FavDates :
          toggleFavorite(d) =>
              /\ isFavorite(d)' = ~isFavorite(d)
              /\ \A e \in FavDates \ {d} : isFavorite(e)' = isFavorite(e)
              /\ Dates(favorites') \ {d} = Dates(favorites) \ {d}
              /\ Dates(IF isFavorite(d)'
                       THEN removeFromFavoritesUpdate(d)'.favorites
                       ELSE addToFavoritesUpdate(d)'.favorites)
                    = Dates(favorites)
      ]_vars

\* the first of two favorites was toggled off and on again: it is now last
C22_Witness ==
    favorites = <<<<2025, 10, 30>>, <<1995, 6, 16>>>>

\* FIRST_APOD_DATE <= date <= today
InRange(date) == DateLE(FIRST_APOD_DATE, date) /\ DateLE(date, getTodayString)

\* C25: from a selectedDate within [1995-06-16, today], goToPreviousDay,
\* goToNextDay and goToToday leave selectedDate within [1995-06-16, today],
\* and a goToPreviousDay or goToNextDay that changes selectedDate moves it
\* to the calendar day before or after.
C25_NavigationStaysInRange ==
    [][(/\ InRange(preferences.selectedDate)
        /\ (goToPreviousDay \/ goToNextDay \/ goToToday))
          => /\ InRange(preferences'.selectedDate)
             /\ (goToPreviousDay
                  /\ preferences'.selectedDate # preferences.selectedDate)
                   => preferences'.selectedDate
                        = DayBefore(preferences.selectedDate)
             /\ (goToNextDay /\ ~goToToday
                  /\ preferences'.selectedDate # preferences.selectedDate)
                   => preferences'.selectedDate
                        = DayAfter(preferences.selectedDate)
      ]_vars

-----------------------------------------------------------------------------
(* Claims about the query cache.                                           *)

\* C12: whatever the order in which the writers of the cache complete, the
\* entry of a date (of a random count) holds the data of the write for that
\* date (count) that completed last; writes for another date or count leave
\* it alone.
C12_LastWriteWinsPerKey ==
    queryCache # <<>> =>
        /\ \A d \in CacheDates :
              queryCache[hashKey(apod(DateParams(d)))] = lastWrite.byDate[d]
        /\ \A c \in CacheCounts :
              queryCache[hashKey(random(c))] = lastWrite.byCount[c]

\* a by-date entry written by the random query's select after a later
\* revision had been fetched for it, with two mutations still pending
C12_Witness ==
    /\ queryCache # <<>>
    /\ queryCache[hashKey(random(2))]
          = <<APOD("'2025-10-29'", 1), APOD("'2025-10-30'", 1)>>
    /\ queryCache[hashKey(apod(DateParams("'2025-10-29'")))]
          = <<APOD("'2025-10-29'", 1)>>
    /\ queryCache[hashKey(apod(DateParams("'2025-10-30'")))]
          = <<APOD("'2025-10-30'", 2)>>
    /\ inFlight.mutation["'2025-10-30'"] = 2
    /\ "'2025-10-29'" \in inFlight.query

-----------------------------------------------------------------------------
(* Claims about APODCard.                                                  *)

InErrorState(c) == c.imageError /\ ~c.imageLoading

\* C13: a failure of the primary image switches the card to the fallback
\* image and shows loading again; a failure of the fallback puts the card in
\* the error state, where it stays until the APOD changes; at most two
\* failures are handled for one APOD.
C13_FallbackThenErrorState ==
    [][/\ (failures' = failures + 1 /\ card.imageSrc # IMAGES_FALLBACK)
            => /\ card'.imageSrc = IMAGES_FALLBACK
               /\ card'.imageLoading /\ ~card'.imageError
       /\ (failures' = failures + 1 /\ card.imageSrc = IMAGES_FALLBACK)
            => InErrorState(card')
       /\ (InErrorState(card) /\ card'.apod = card.apod) => card' = card
       /\ failures' <= 2]_vars

\* the primary image and then the fallback failed
C13_Witness ==
    /\ failures = 2
    /\ card.apod.url = "https://apod.nasa.gov/a.jpg"
    /\ card.imageSrc = IMAGES_FALLBACK
    /\ InErrorState(card)
    /\ img.status = "failed"

-----------------------------------------------------------------------------
(* Claims about the pages.                                                 *)

\* C14: when the fetch a page started has failed, the page shows an error
\* and offers a retry.
C14_FailureShowsErrorWithRetry ==
    screen.request = "failed" => (Shows(screen).error /\ Shows(screen).retry)

-----------------------------------------------------------------------------
(* Claims about the API clients.                                           *)

\* C15: every function of the three API clients gives its request a timeout
\* and reports a failure as a typed error with an HTTP status and a
\* message, never as a raw exception.
C15_TimeoutAndTypedErrors ==
    call # "" =>
        /\ signalTimeout(call) > 0
        /\ outcome.kind = "rejected" =>
              /\ outcome.name \in {"NASAAPIError", "RickAndMortyAPIError"}
              /\ outcome.status >= 100
              /\ outcome.detail # ""

-----------------------------------------------------------------------------
(* Claims about a call in flight.                                          *)

\* the upstream answers the call made with a 2xx response and a JSON body
\* before the timeout the request carries, if it carries one
AnswersInTime ==
    /\ DOMAIN wire # {}
    /\ OutcomeClass(wire.answer) = "success"
    /\ signalTimeout(call) # 0 => wire.latency * TickMs < signalTimeout(call)

\* every call that is waiting settles
EveryCallSettles == InFlight ~> outcome # Pending

\* C16: a call of fetchAPOD or of a fetchRickAndMorty* function never stays
\* pending, and a call whose upstream answers successfully before the timeout
\* returns the parsed body, not an error.
C16_SettlesAndSuccessReturnsBody ==
    (call # "" /\ outcome # Pending /\ AnswersInTime)
        => outcome = Resolved(json(wire.answer.body).val)

-----------------------------------------------------------------------------
(* Claims about the debounced search text.                                 *)

\* CharacterSearch: isTyping = filters.name !== debouncedName
isTyping == filters.name # debounced

\* C17: while the component is mounted the hook's output changes only to the
\* value the input has held for the whole of the last `delay` ms, so a value
\* replaced sooner never comes out, and at most one timeout is pending.
C17_OutputOnlyAfterStableDelay ==
    [][/\ (mounted /\ mounted' /\ debounced' # debounced)
            => /\ debounced' = filters.name
               /\ stable * StepMs >= delay
       /\ Cardinality(timers') <= 1]_vars

C17_Witness ==
    /\ mounted
    /\ debounced = Quoted("ri")
    /\ filters.name = Quoted("ri")
    /\ timers = {}

\* C18: once filters.name stops changing while the component stays mounted,
\* the hook's output becomes that value and stays it, and isTyping is false.
C18_OutputCatchesUp ==
    \A name \in {EmptyName, NullName, Quoted("r"), Quoted("ri")} :
        <>[](mounted /\ filters.name = name)
            => <>[](debounced = name /\ ~isTyping)

C18_Witness ==
    /\ mounted
    /\ filters.name = NullName
    /\ debounced = NullName
    /\ stable * StepMs >= delay
    /\ timers = {}

-----------------------------------------------------------------------------
(* Claims about the environment switcher.                                  *)

\* the lines of a file's content
Lines(content) == Split(content, "\n")

\* the file a run starts from: .env, or .env.example when there is no .env
Base == IF envFile.exists THEN envFile ELSE exampleFile

\* the first line of lines that starts with name=, 0 when there is none
FirstLine(lines, name) ==
    IF \E i \in DOMAIN lines : StartsAt(lines[i], 1, name \o <<"=">>)
    THEN CHOOSE i \in DOMAIN lines :
            /\ StartsAt(lines[i], 1, name \o <<"=">>)
            /\ \A j \in 1..(i - 1) : ~StartsAt(lines[j], 1, name \o <<"=">>)
    ELSE 0

\* lines with the line of name replaced by name="mode", or with that line
\* appended when there is none
WithMode(lines, name, mode) ==
    LET line == name \o <<"=", "\"">> \o mode \o <<"\"">>
    IN  IF FirstLine(lines, name) # 0
        THEN [lines EXCEPT ![FirstLine(lines, name)] = line]
        ELSE Append(lines, line)

\* the run of the step carries this option with a value that is not empty
Carries(name) == Given(Option(parseArgs(argv'), name))

OptionOfRun(name) == Option(parseArgs(argv'), name)

\* the lines of .env the step wrote or changed
Written(name) ==
    IF ~envFile'.exists THEN {}
    ELSE {line \in {Lines(envFile'.content)[i] :
                       i \in DOMAIN Lines(envFile'.content)} :
            /\ StartsAt(line, 1, name \o <<"=">>)
            /\ \A i \in DOMAIN Lines(Base.content) :
                  Lines(Base.content)[i] # line}

\* C19: a run whose --db is not local or supabase, whose --redis is not
\* local or upstash, or whose --preset is not a preset exits with status 1
\* and leaves .env as it was, whatever its other options are; so each
\* DB_MODE and REDIS_MODE line a run writes holds a documented value.
C19_InvalidModesRejected ==
    [][/\ (\/ /\ Carries(<<"d", "b">>)
              /\ OptionOfRun(<<"d", "b">>) \notin {local, supabase}
           \/ /\ Carries(<<"r", "e", "d", "i", "s">>)
              /\ OptionOfRun(<<"r", "e", "d", "i", "s">>) \notin {local, upstash}
           \/ /\ Carries(<<"p", "r", "e", "s", "e", "t">>)
              /\ \A i \in DOMAIN PRESETS :
                    PRESETS[i].name # OptionOfRun(<<"p", "r", "e", "s", "e", "t">>))
          => exitCode' = 1 /\ envFile' = envFile
       /\ Written(DB_MODE) \subseteq
            {DB_MODE \o <<"=", "\"">> \o m \o <<"\"">> : m \in {local, supabase}}
       /\ Written(REDIS_MODE) \subseteq
            {REDIS_MODE \o <<"=", "\"">> \o m \o <<"\"">> : m \in {local, upstash}}
      ]_vars

\* the run of the step is --preset=P for the i-th preset, without a --help
\* or --status value, and a file to start from exists
PresetRun(i) ==
    /\ OptionOfRun(<<"p", "r", "e", "s", "e", "t">>) = PRESETS[i].name
    /\ ~Given(OptionOfRun(<<"h", "e", "l", "p">>))
    /\ ~Given(OptionOfRun(<<"s", "t", "a", "t", "u", "s">>))
    /\ Base.exists

\* the last run was --preset=P for the i-th preset and set .env
PresetWasSet(i) ==
    /\ Option(parseArgs(argv), <<"p", "r", "e", "s", "e", "t">>) = PRESETS[i].name
    /\ ~Given(Option(parseArgs(argv), <<"h", "e", "l", "p">>))
    /\ ~Given(Option(parseArgs(argv), <<"s", "t", "a", "t", "u", "s">>))
    /\ exitCode = 0

\* the run of the step is --status
StatusRun == argv' \in {<<Flag(<<"s", "t", "a", "t", "u", "s">>)>>,
                        <<Arg(<<"s", "t", "a", "t", "u", "s">>, <<"1">>)>>}

\* C20: a run with --preset=P for one of the four presets leaves .env with
\* the DB_MODE and REDIS_MODE of P: the first line of each key replaced, or a
\* line appended when the key has none, and every other line as it was; a
\* --status run that follows prints these two modes and the name P, once
\* each.
C20_PresetSetsBothModes ==
    [][\A i \in DOMAIN PRESETS :
          /\ PresetRun(i) =>
                /\ exitCode' = 0
                /\ envFile'.exists
                /\ Lines(envFile'.content)
                     = WithMode(WithMode(Lines(Base.content), DB_MODE,
                                         PRESETS[i].DB_MODE),
                                REDIS_MODE, PRESETS[i].REDIS_MODE)
          /\ (PresetWasSet(i) /\ StatusRun) =>
                /\ \A n \in DOMAIN stdout' :
                      /\ stdout'[n][1] = "Database:"
                            => stdout'[n][2] = PRESETS[i].DB_MODE
                      /\ stdout'[n][1] = "Redis:"
                            => stdout'[n][2] = PRESETS[i].REDIS_MODE
                      /\ stdout'[n][1] = "Preset:"
                            => stdout'[n][2] = PRESETS[i].name
                /\ \A text \in {"Database:", "Redis:", "Preset:"} :
                      Cardinality({n \in DOMAIN stdout' :
                                      stdout'[n][1] = text}) = 1
      ]_vars

\* --preset=hybrid-upstash has replaced a DB_MODE line and appended a
\* REDIS_MODE line, and --status has reported it
C20_Witness ==
    /\ envFile.exists
    /\ Lines(envFile.content)
         = <<DB_MODE \o <<"=", "\"">> \o local \o <<"\"">>,
             <<"#", " ">> \o REDIS_MODE \o <<"=">> \o local,
             <<"P", "O", "R", "T", "=", "1">>,
             REDIS_MODE \o <<"=", "\"">> \o upstash \o <<"\"">>>>
    /\ argv = <<Flag(<<"s", "t", "a", "t", "u", "s">>)>>
    /\ \E n \in DOMAIN stdout : stdout[n] = <<"Preset:", hybridUpstash>>

-----------------------------------------------------------------------------
(* Claims about the character hooks.                                       *)

\* ids holds at least one id
IdsGiven(ps) == Get(ps, "ids").k = "arr" /\ Get(ps, "ids").a # <<>>

\* C23: for every character request exactly one of useRickAndMortyCharacters
\* and useRickAndMortyCharactersByIds is enabled: the first iff ids is null,
\* undefined or empty, the second iff ids holds an id; and the infinite
\* query is not enabled when ids holds an id.
C23_ExactlyOneSingleShotHook ==
    DOMAIN hookEnabled # {} =>
        /\ hookEnabled.characters # hookEnabled.charactersByIds
        /\ hookEnabled.characters = ~IdsGiven(hookParams)
        /\ hookEnabled.charactersByIds = IdsGiven(hookParams)
        /\ IdsGiven(hookParams) => ~hookEnabled.charactersInfinite

\* the hooks rendered for a request that names two ids
C23_Witness ==
    /\ DOMAIN hookEnabled # {}
    /\ Get(hookParams, "ids") = Arr(<<10, 2>>)
    /\ hookEnabled.charactersByIds

-----------------------------------------------------------------------------
(* Claims about the retries.                                               *)

\* C24: a failing query is run at most 4 times and a failing mutation at
\* most 2 times before its error is surfaced; the retry delay does not
\* decrease from one attemptIndex to the next and is at most 30000 ms.
C24_AttemptsAndDelaysBounded ==
    /\ \A job \in DOMAIN retryers :
          /\ retryers[job].attempts
                <= (IF Running[job] = "queries" THEN 4 ELSE 2)
          /\ \A i \in DOMAIN retryers[job].waits :
                /\ retryers[job].waits[i] <= 30000
                /\ i > 1 => retryers[job].waits[i - 1] <= retryers[job].waits[i]
    /\ delayAsked.ms <= 30000
    /\ delayAsked.ms <= retryDelay(delayAsked.attemptIndex + 1)
    /\ delayAsked.attemptIndex > 0
          => retryDelay(delayAsked.attemptIndex - 1) <= delayAsked.ms

\* a query and the mutation have surfaced their errors after 4 and 2 runs,
\* and the delay of an attemptIndex past the cap was asked for
C24_Witness ==
    /\ DOMAIN retryers # {}
    /\ retryers["apod"] = Retryer(3, 4, "error", <<1000, 2000, 4000>>)
    /\ retryers["prefetchAPOD"] = Retryer(1, 2, "error", <<1000>>)
    /\ delayAsked = [attemptIndex |-> 6, ms |-> 30000]

=============================================================================
